---- MODULE Spec2Model ----
(***************************************************************************)
(* Index allocation and address derivation of HDWalletService              *)
(* (fluxapay_backend/src/services/HDWalletService.ts).                     *)
(*                                                                         *)
(* The allocation store is the PostgreSQL database reached through Prisma: *)
(* the singleton row hDIndexCounter{id:"global"} and one merchantHDIndex   *)
(* row per merchant, keyed by the unique column merchantId.  A statement   *)
(* reads the committed rows (READ COMMITTED, the default of an interactive *)
(* prisma.$transaction); a row written inside a transaction stays locked   *)
(* and invisible to the others until the transaction commits or rolls      *)
(* back.  Every await of the service is one step, so calls interleave      *)
(* between any two statements.                                             *)
(*                                                                         *)
(* Spec           concurrent derivePaymentAddress calls over the store     *)
(* SpecRoundTrip  Spec plus regenerateKeypairFromPath on returned paths    *)
(* SpecDerive     regenerateKeypair / regenerateKeypairFromPath /          *)
(*                verifyAddress on one service                             *)
(* SpecCodec      encryptKeyData / decryptKeyData on one service           *)
(*                                                                         *)
(* Text is kept as a sequence of characters or tokens, so that formatting  *)
(* and parsing are separate functions.  SHA, HMAC, Ed25519, AES-GCM and    *)
(* the KMS wrapping are uninterpreted terms: equal inputs give equal       *)
(* terms, different inputs different terms; randomBytes and                *)
(* GenerateDataKey return values never returned before.                    *)
(***************************************************************************)
EXTENDS Integers, FiniteSets, Sequences, TLC

\* ---- bounds ------------------------------------------------------------
NumCalls == 2
NumMerchants == 2
MaxKeyOps == 2         \* key operations recorded on one service

Calls == 1..NumCalls
MerchantIds == 1..NumMerchants
PaymentIds == {"pay_1", "pay_2"}

\* ---- program constants -------------------------------------------------
STELLAR_COIN_TYPE == 148
BIP44_PURPOSE == 44

NoIndex == -1          \* null / undefined / no row
NoCall == 0            \* the row lock is free
Seed == "seed"
NoSeed == "null"
\* a seed of 64 hexadecimal characters, spelled in lower and in upper case
HexSeedLower == "0123456789abcdef0123456789abcdef0123456789abcdef0123456789abcdef"
HexSeedUpper == "0123456789ABCDEF0123456789ABCDEF0123456789ABCDEF0123456789ABCDEF"
Seeds == {Seed, HexSeedLower, HexSeedUpper}
LargestIndex == 2147483647       \* 2^31 - 1
\* indices passed to the key operations: the two ends of [0, 2^31)
Indices == {0, LargestIndex}
KeyId == "key-id"
CACHE_TTL == 5 * 60 * 1000          \* milliseconds
MaxTicks == 2          \* clock advances
MaxPolls == 1          \* pollStatus responses awaited at a time
NoRow == -2            \* findUnique found no row
NoTime == -1           \* has not happened
WrappedSeed == "wrapped-seed"       \* the seed encrypted under the KMS key
WrappedHexSeed == "wrapped-hex-seed"    \* the same of HexSeedLower
ProviderKinds == {"direct", "aws", "plain"}

VARIABLES
  \* allocation store (committed rows)
  next_merchant_index, \* hDIndexCounter "global" row, NoIndex while absent
  merchant_index,      \* merchantHDIndex.merchant_index per merchantId
  payment_counter,     \* merchantHDIndex.payment_counter per merchantId
  \* open transactions
  rowLock,             \* call whose transaction wrote the "global" row
  txNext,              \* uncommitted next_merchant_index of a transaction
  txRow,               \* uncommitted merchantHDIndex row of a transaction
  \* HDWalletService
  masterSeed,          \* this.masterSeed
  \* derivePaymentAddress calls
  pc,                  \* position of the call
  phase,               \* 1: getMerchantIndex of line 257, 2: of line 160
  merchantId,          \* argument
  existing,            \* findUnique result of each getMerchantIndex call
  assignedIndex,       \* local of getMerchantIndex
  merchantIndex,       \* local of derivePaymentAddress (line 257)
  ensured,             \* value returned to line 160 (discarded by the code)
  paymentIndex,        \* local of derivePaymentAddress (line 258)
  result,              \* the DerivedAddress returned
  err,                 \* error the call was rejected with
  \* history of a call, used to state its effect
  hadMapping,          \* merchantId had a mapping when the call was invoked
  seenMax,             \* largest paymentIndex returned before line 258
  gIncs,               \* global counter increments the call committed
  pIncs,               \* payment counter increments the call committed
  \* the service's provider and the key operations made on the service
  kmsProvider,         \* this.kmsProvider: its kind and the seed it guards
  regen,               \* regenerateKeypairFromPath(result.derivationPath)
  klog,                \* completed key operations, in order
  rng,                 \* number of values drawn from randomBytes / KMS
  \* Payment rows
  payment_index,       \* Payment.payment_index per payment id
  \* AWSKMSProvider
  envSeed,             \* process.env.KMS_ENCRYPTED_MASTER_SEED
  encryptedSeed,       \* this.encryptedSeed
  cachedSeed,          \* this.cachedSeed
  cacheExpiry,         \* this.cacheExpiry
  now,                 \* Date.now(), counted from the construction
  kcall,               \* the latest provider call of each caller
  fetchedAt,           \* time of the latest answer of the KMS backend
  loadedAt,            \* time the seed in this.masterSeed was fetched
  stored,              \* seed of the latest storeMasterSeed that completed
  \* callers of derivePaymentAddress
  retried,             \* the call is a retry after a rejected first attempt
  \* usePaymentStatus: the props, state and refs of one component
  paymentId,           \* the paymentId of the latest render
  mounted,             \* the component is mounted
  payment,             \* useState payment
  loading,             \* useState loading
  error,               \* useState error
  connectionType,      \* useState connectionType
  eventSourceRef,      \* eventSourceRef.current
  pollingRef,          \* pollingRef.current
  hasCleanup,          \* the transport effect's last run returned its cleanup
  \* usePaymentStatus: the browser and the server
  hasEventSource,      \* 'EventSource' in window
  sources,             \* EventSource objects not closed
  intervals,           \* intervals set and not cleared
  fetches,             \* fetchPayment calls awaiting their response
  polls,               \* pollStatus calls awaiting their response
  status               \* the server's status of each payment

store == <<next_merchant_index, merchant_index, payment_counter>>
txs == <<rowLock, txNext, txRow>>
locals == <<phase, merchantId, existing, assignedIndex, merchantIndex,
            ensured, paymentIndex, result>>
history == <<hadMapping, seenMax, gIncs, pIncs>>
awsProvider == <<envSeed, encryptedSeed, cachedSeed, cacheExpiry>>
timing == <<now, kcall, fetchedAt, loadedAt>>
state == <<paymentId, mounted, payment, loading, error, connectionType>>
transports == <<eventSourceRef, pollingRef, hasCleanup, sources, intervals>>
hook == <<state, transports, hasEventSource, fetches, polls, status>>
later == <<stored, retried, hook>>
extra == <<payment_index, awsProvider, timing, later>>
keys == <<kmsProvider, regen, klog, rng, extra>>
vars == <<store, txs, masterSeed, pc, locals, err, history, keys>>

GmiSteps == {"findUnique", "upsert", "update", "create", "commit"}
StoreSteps == GmiSteps \cup {"paymentUpdate"}

NoResult == [publicKey |-> <<>>, merchantIndex |-> NoIndex,
             paymentIndex |-> NoIndex, derivationPath |-> <<>>]

Max(S) == IF S = {} THEN NoIndex ELSE CHOOSE x \in S : \A y \in S : y <= x

\* payment indices already returned by getNextPaymentIndex for merchant m
ReturnedPaymentIndices(m) ==
  {paymentIndex[c] : c \in {d \in Calls : merchantId[d] = m
                                         /\ paymentIndex[d] # NoIndex}}

\* a provider call that was not made.  pc: idle, sent (awaiting the KMS),
\* done, failed; sent: the KMS was contacted; kms: how the KMS answered
\* (none, ok, failed); blob: the CiphertextBlob sent; want: the seed of the
\* latest storeMasterSeed completed before the call; stale: the seed returned was
\* fetched CACHE_TTL or longer ago; raced: another call was awaiting the KMS
\* when this one started
IdleCall == [pc |-> "idle", op |-> "none", ret |-> NoSeed, err |-> "none",
             sent |-> FALSE, kms |-> "none", stale |-> FALSE,
             raced |-> FALSE, blob |-> NoSeed, want |-> NoSeed]

\* ['confirmed', 'expired', 'failed'] (part_002 lines 90 and 162)
Terminal == {"confirmed", "expired", "failed"}

\* the statuses the server reports: "partially_paid" stands for every status
\* other than "pending" that is not in the list above, "confirmed" for those
\* that are
Statuses == {"pending", "partially_paid", "confirmed"}

\* null, of each kind.  A payment is [id, status, statusOf]: id is the
\* payment the data was fetched for, and statusOf (no field of the program)
\* the payment whose status the field status holds.  An EventSource is
\* [id, key]: the payment of its URL and what tells it from the other objects.
\* An interval is [id, key, why]: the payment its pollStatus asks for, and the
\* call of startPolling that set it (unavailable, throws, error).
NoPayment == [id |-> "none", status |-> "none", statusOf |-> "none"]
NoSource == [id |-> "none", key |-> 0]
NoInterval == [id |-> "none", key |-> 0, why |-> "none"]

\* no component is mounted
NoHook ==
  /\ paymentId = "none"
  /\ mounted = FALSE
  /\ payment = NoPayment
  /\ loading = TRUE
  /\ error = "none"
  /\ connectionType = "none"
  /\ eventSourceRef = NoSource
  /\ pollingRef = NoInterval
  /\ hasCleanup = FALSE
  /\ hasEventSource = TRUE
  /\ sources = {}
  /\ intervals = {}
  /\ fetches = {}
  /\ polls = {}
  /\ status = [p \in PaymentIds |-> "pending"]

\* no storeMasterSeed call was made, no caller has retried and no component
\* is mounted
Untouched ==
  /\ stored = NoSeed
  /\ retried = [c \in Calls |-> FALSE]
  /\ NoHook

\* no Payment row carries an index, the AWS provider was just constructed
\* (lines 16-18 of AWSKMSProvider.ts) and no getMasterSeed call was made
Quiet ==
  /\ payment_index = [p \in PaymentIds |-> NoRow]
  /\ envSeed = WrappedSeed
  /\ encryptedSeed = NoSeed
  /\ cachedSeed = NoSeed
  /\ cacheExpiry = 0
  /\ now = 0
  /\ kcall = [c \in Calls |-> IdleCall]
  /\ fetchedAt = NoTime
  /\ loadedAt = NoTime
  /\ Untouched

\* ---- pure helpers ------------------------------------------------------

DigitChars == <<"0", "1", "2", "3", "4", "5", "6", "7", "8", "9">>

IsDigit(ch) == \E d \in 1..10 : DigitChars[d] = ch

DigitValue(ch) == (CHOOSE d \in 1..10 : DigitChars[d] = ch) - 1

RECURSIVE Decimal(_)
\* `${n}` of a non-negative integer
Decimal(n) ==
  IF n < 10 THEN <<DigitChars[n + 1]>>
            ELSE Decimal(n \div 10) \o <<DigitChars[(n % 10) + 1]>>

RECURSIVE ParseInt(_)
\* parseInt(text, 10) of a run of decimal digits
ParseInt(text) ==
  IF Len(text) = 0 THEN 0
  ELSE ParseInt(SubSeq(text, 1, Len(text) - 1)) * 10
         + DigitValue(text[Len(text)])

RECURSIVE Split(_, _)
\* text.split(d)
Split(text, d) ==
  IF \A i \in 1..Len(text) : text[i] # d THEN <<text>>
  ELSE LET i == CHOOSE k \in 1..Len(text) :
                  text[k] = d /\ \A j \in 1..(k - 1) : text[j] # d
       IN <<SubSeq(text, 1, i - 1)>>
            \o Split(SubSeq(text, i + 1, Len(text)), d)

\* variant: the payment index is left out of the path
DerivationPathDropsPayment(mi, pi) ==
  <<"m", "/">> \o Decimal(BIP44_PURPOSE) \o <<"'", "/">>
    \o Decimal(STELLAR_COIN_TYPE) \o <<"'", "/">>
    \o Decimal(mi) \o <<"'", "/">> \o Decimal(0) \o <<"'">>

\* variant: another coin type is written into the path
DerivationPathOtherCoin(mi, pi) ==
  <<"m", "/">> \o Decimal(BIP44_PURPOSE) \o <<"'", "/">>
    \o Decimal(STELLAR_COIN_TYPE + 1) \o <<"'", "/">>
    \o Decimal(mi) \o <<"'", "/">> \o Decimal(pi) \o <<"'">>

\* variant: the two indices are written in the wrong order
DerivationPathSwapped(mi, pi) ==
  <<"m", "/">> \o Decimal(BIP44_PURPOSE) \o <<"'", "/">>
    \o Decimal(STELLAR_COIN_TYPE) \o <<"'", "/">>
    \o Decimal(pi) \o <<"'", "/">> \o Decimal(mi) \o <<"'">>

\* `m/44'/${STELLAR_COIN_TYPE}'/${merchantIndex}'/${paymentIndex}'`
DerivationPath(mi, pi) ==
  <<"m", "/">> \o Decimal(BIP44_PURPOSE) \o <<"'", "/">>
    \o Decimal(STELLAR_COIN_TYPE) \o <<"'", "/">>
    \o Decimal(mi) \o <<"'", "/">> \o Decimal(pi) \o <<"'">>

\* /^[0-9a-fA-F]{64}$/.test(masterSeed), over the seeds of the model
IsHex64(seed) == seed \in {HexSeedLower, HexSeedUpper}

\* Buffer.from(masterSeed, "hex"): the case of a hex digit does not matter
HexBytes(seed) == <<"bytes", HexSeedLower>>

\* getSeedBuffer: seed32 || seed32 of a hex seed, SHA-512 of any other seed
SeedBuffer(seed) ==
  IF IsHex64(seed) THEN <<"concat", HexBytes(seed), HexBytes(seed)>>
                   ELSE <<"sha512", seed>>

\* one segment of a path: digits followed by the hardened marker
IsSegment(t) ==
  /\ Len(t) >= 2
  /\ t[Len(t)] = "'"
  /\ \A i \in 1..(Len(t) - 1) : IsDigit(t[i])

\* isValidPath of ed25519-hd-key: /^m(\/[0-9]+')+$/
IsValidPath(path) ==
  LET parts == Split(path, "/")
  IN /\ Len(parts) >= 2
     /\ parts[1] = <<"m">>
     /\ \A i \in 2..Len(parts) : IsSegment(parts[i])

\* path.split("/").slice(1).map(replaceDerive).map(parseInt)
PathSegments(path) ==
  LET parts == Split(path, "/")
  IN [i \in 1..(Len(parts) - 1) |->
        ParseInt(SubSeq(parts[i + 1], 1, Len(parts[i + 1]) - 1))]

RECURSIVE StripZeros(_)
\* the digits of a number without its leading zeros
StripZeros(t) ==
  IF Len(t) > 1 /\ t[1] = "0" THEN StripZeros(Tail(t)) ELSE t

RECURSIVE TextLeq(_, _)
\* a <= b for two runs of digits of the same length
TextLeq(a, b) ==
  IF Len(a) = 0 THEN TRUE
  ELSE IF DigitValue(a[1]) # DigitValue(b[1])
         THEN DigitValue(a[1]) < DigitValue(b[1])
         ELSE TextLeq(Tail(a), Tail(b))

\* indexBuffer.writeUInt32BE(index + 0x80000000) of CKDPriv accepts the
\* index: it is at most 2^31 - 1.  Decided on the digits, since the sum does
\* not fit the integers of the model.
FitsHardened(digits) ==
  LET d == StripZeros(digits)
      m == Decimal(LargestIndex)
  IN Len(d) < Len(m) \/ (Len(d) = Len(m) /\ TextLeq(d, m))

\* the digits of the segments of a valid path
SegmentDigits(path) ==
  LET parts == Split(path, "/")
  IN [i \in 1..(Len(parts) - 1) |->
        SubSeq(parts[i + 1], 1, Len(parts[i + 1]) - 1)]

InvalidPathError == "Invalid derivation path"
RangeError == "ERR_OUT_OF_RANGE"

\* derivePath(path, seedHex): the chain of hardened child keys below the
\* master key of the seed; segment i stands for index i + 0x80000000, which
\* writeUInt32BE accepts up to 2^31 - 1 and rejects with a RangeError above.
DerivePath(path, seedBuffer) ==
  IF ~IsValidPath(path)
    THEN [error |-> InvalidPathError, key |-> <<>>]
  ELSE IF \E i \in 1..Len(SegmentDigits(path)) :
            ~FitsHardened(SegmentDigits(path)[i])
    THEN [error |-> RangeError, key |-> <<>>]
    ELSE [error |-> "none",
          key |-> <<"CKDPriv", seedBuffer, PathSegments(path)>>]

NoKeypair == [error |-> "unset", publicKey |-> <<>>, secretKey |-> <<>>]

\* variant: the secret is returned in the place of the public key
KeypairFromPathLeaksSecret(seed, path) ==
  LET d == DerivePath(path, SeedBuffer(seed))
  IN IF d.error # "none"
       THEN [error |-> d.error, publicKey |-> <<>>, secretKey |-> <<>>]
       ELSE [error |-> "none", publicKey |-> <<"S", d.key>>,
             secretKey |-> <<"S", d.key>>]

\* derivePath and Keypair.fromRawEd25519Seed: publicKey() and secret()
KeypairFromPath(seed, path) ==
  LET d == DerivePath(path, SeedBuffer(seed))
  IN IF d.error # "none"
       THEN [error |-> d.error, publicKey |-> <<>>, secretKey |-> <<>>]
       ELSE [error |-> "none", publicKey |-> <<"G", d.key>>,
             secretKey |-> <<"S", d.key>>]

\* the public key derivePaymentAddress returns for a path
PublicKey(seed, path) == KeypairFromPath(seed, path).publicKey

\* the seed getMasterSeed resolves to when the provider answers
\* (lines 54-60: the held seed, else the provider's)
MasterSeedValue ==
  IF masterSeed # NoSeed THEN masterSeed ELSE kmsProvider.seed

\* variant: the post-increment counter value is claimed
AssignedIndexPostIncrement(updated) == updated

\* updated.next_merchant_index - 1
AssignedIndex(updated) == updated - 1

\* variant: the post-increment counter value is returned
PostIncrement(updated) == updated

\* updated.payment_counter - 1
PreIncrement(updated) == updated - 1

\* variant: the wrong column of the existing row is returned
ExistingPaymentCounter(m) ==
  IF merchant_index[m] = NoIndex THEN NoIndex ELSE payment_counter[m]

\* existing.merchant_index
ExistingIndex(m) == merchant_index[m]

\* ---- transaction -------------------------------------------------------

\* variant: the counter row is written without waiting for its lock
CanLockAlways(c) == TRUE

\* the transaction of call c may write the "global" row
CanLock(c) == rowLock \in {NoCall, c}

\* variant: the counter write is not part of the transaction and survives
RollbackKeepsCounter(c) ==
  /\ rowLock' = IF rowLock = c THEN NoCall ELSE rowLock
  /\ next_merchant_index' =
       IF txNext[c] # NoIndex THEN txNext[c] ELSE next_merchant_index
  /\ txNext' = [txNext EXCEPT ![c] = NoIndex]
  /\ txRow' = [txRow EXCEPT ![c] = NoIndex]
  /\ UNCHANGED <<merchant_index, payment_counter>>

\* ROLLBACK of the transaction of call c: uncommitted writes are dropped
Rollback(c) ==
  /\ rowLock' = IF rowLock = c THEN NoCall ELSE rowLock
  /\ txNext' = [txNext EXCEPT ![c] = NoIndex]
  /\ txRow' = [txRow EXCEPT ![c] = NoIndex]
  /\ UNCHANGED store

\* ---- derivePaymentAddress ----------------------------------------------

Init ==
  /\ next_merchant_index = NoIndex
  /\ merchant_index = [m \in MerchantIds |-> NoIndex]
  /\ payment_counter = [m \in MerchantIds |-> 0]
  /\ rowLock = NoCall
  /\ txNext = [c \in Calls |-> NoIndex]
  /\ txRow = [c \in Calls |-> NoIndex]
  /\ masterSeed \in {Seed, NoSeed}
  /\ pc = [c \in Calls |-> "idle"]
  /\ phase = [c \in Calls |-> 1]
  /\ merchantId = [c \in Calls |-> 1]
  /\ existing = [c \in Calls |-> <<NoIndex, NoIndex>>]
  /\ assignedIndex = [c \in Calls |-> NoIndex]
  /\ merchantIndex = [c \in Calls |-> NoIndex]
  /\ ensured = [c \in Calls |-> NoIndex]
  /\ paymentIndex = [c \in Calls |-> NoIndex]
  /\ result = [c \in Calls |-> NoResult]
  /\ err = [c \in Calls |-> "none"]
  /\ hadMapping = [c \in Calls |-> FALSE]
  /\ seenMax = [c \in Calls |-> NoIndex]
  /\ gIncs = [c \in Calls |-> 0]
  /\ pIncs = [c \in Calls |-> 0]
  /\ kmsProvider = [kind |-> IF masterSeed = NoSeed THEN "aws" ELSE "direct",
                    seed |-> Seed]
  /\ regen = [c \in Calls |-> NoKeypair]
  /\ klog = <<>>
  /\ rng = 0
  /\ Quiet

\* a request handler calls derivePaymentAddress(m, p); p is never read
Invoke(c, m, p) ==
  /\ pc[c] = "idle"
  /\ pc' = [pc EXCEPT ![c] = "findUnique"]
  /\ merchantId' = [merchantId EXCEPT ![c] = m]
  /\ hadMapping' = [hadMapping EXCEPT ![c] = merchant_index[m] # NoIndex]
  /\ UNCHANGED <<store, txs, masterSeed, phase, existing, assignedIndex,
                 merchantIndex, ensured, paymentIndex, result, err,
                 seenMax, gIncs, pIncs>>
  /\ UNCHANGED keys

\* tx.merchantHDIndex.findUnique({ where: { merchantId } })
FindUnique(c) ==
  /\ pc[c] = "findUnique"
  /\ existing' = [existing EXCEPT ![c][phase[c]] = ExistingIndex(merchantId[c])]
  /\ pc' = [pc EXCEPT ![c] =
              IF existing'[c][phase[c]] # NoIndex THEN "commit" ELSE "upsert"]
  /\ UNCHANGED <<store, txs, masterSeed, phase, merchantId, assignedIndex,
                 merchantIndex, ensured, paymentIndex, result, err, history>>
  /\ UNCHANGED keys

\* tx.hDIndexCounter.upsert({ create: { next_merchant_index: 0 }, update: {} })
Upsert(c) ==
  /\ pc[c] = "upsert"
  /\ IF next_merchant_index # NoIndex
       THEN UNCHANGED txs
       ELSE /\ CanLock(c)
            /\ rowLock' = c
            /\ txNext' = [txNext EXCEPT ![c] = 0]
            /\ UNCHANGED txRow
  /\ pc' = [pc EXCEPT ![c] = "update"]
  /\ UNCHANGED <<store, masterSeed, locals, err, history>>
  /\ UNCHANGED keys

\* tx.hDIndexCounter.update({ data: { next_merchant_index: { increment: 1 } } })
\* and assignedIndex = updated.next_merchant_index - 1
CounterUpdate(c) ==
  /\ pc[c] = "update"
  /\ CanLock(c)
  /\ LET cur == IF txNext[c] # NoIndex THEN txNext[c] ELSE next_merchant_index
     IN /\ txNext' = [txNext EXCEPT ![c] = cur + 1]
        /\ assignedIndex' = [assignedIndex EXCEPT ![c] = AssignedIndex(cur + 1)]
  /\ rowLock' = c
  /\ pc' = [pc EXCEPT ![c] = "create"]
  /\ UNCHANGED <<store, txRow, masterSeed, phase, merchantId, existing,
                 merchantIndex, ensured, paymentIndex, result, err, history>>
  /\ UNCHANGED keys

\* variant: merchantId is not unique, a second row replaces the first
MerchantCreateOverwrite(c) ==
  /\ pc[c] = "create"
  /\ txRow' = [txRow EXCEPT ![c] = assignedIndex[c]]
  /\ pc' = [pc EXCEPT ![c] = "commit"]
  /\ UNCHANGED <<store, rowLock, txNext, err>>
  /\ UNCHANGED <<masterSeed, locals, history, keys>>

\* variant: the conflict on merchantId is caught inside the callback, which
\* goes on to commit what it wrote and returns the index it assigned itself
MerchantCreateSwallowsConflict(c) ==
  /\ pc[c] = "create"
  /\ txRow' = [txRow EXCEPT ![c] =
                 IF merchant_index[merchantId[c]] # NoIndex
                   THEN NoIndex ELSE assignedIndex[c]]
  /\ pc' = [pc EXCEPT ![c] = "commit"]
  /\ UNCHANGED <<store, rowLock, txNext, err>>
  /\ UNCHANGED <<masterSeed, locals, history, keys>>

\* tx.merchantHDIndex.create({ data: { merchantId, merchant_index, ... } })
\* merchantId is unique: a committed row of the same merchant rejects the
\* insert, the callback throws and the transaction is rolled back.
MerchantCreate(c) ==
  /\ pc[c] = "create"
  /\ IF merchant_index[merchantId[c]] # NoIndex
       THEN /\ Rollback(c)
            /\ pc' = [pc EXCEPT ![c] = "failed"]
            /\ err' = [err EXCEPT ![c] = "unique"]
       ELSE /\ txRow' = [txRow EXCEPT ![c] = assignedIndex[c]]
            /\ pc' = [pc EXCEPT ![c] = "commit"]
            /\ UNCHANGED <<store, rowLock, txNext, err>>
  /\ UNCHANGED <<masterSeed, locals, history>>
  /\ UNCHANGED keys

\* the value the transaction callback returned
Returned(c) ==
  IF existing[c][phase[c]] # NoIndex THEN existing[c][phase[c]]
                                     ELSE assignedIndex[c]

\* COMMIT of prisma.$transaction, and getMerchantIndex returns to its caller
Commit(c) ==
  /\ pc[c] = "commit"
  /\ next_merchant_index' =
       IF txNext[c] # NoIndex THEN txNext[c] ELSE next_merchant_index
  /\ merchant_index' =
       IF txRow[c] # NoIndex
         THEN [merchant_index EXCEPT ![merchantId[c]] = txRow[c]]
         ELSE merchant_index
  /\ payment_counter' =
       IF txRow[c] # NoIndex
         THEN [payment_counter EXCEPT ![merchantId[c]] = 0]
         ELSE payment_counter
  /\ rowLock' = IF rowLock = c THEN NoCall ELSE rowLock
  /\ txNext' = [txNext EXCEPT ![c] = NoIndex]
  /\ txRow' = [txRow EXCEPT ![c] = NoIndex]
  /\ gIncs' = [gIncs EXCEPT ![c] =
       @ + (IF txNext[c] # NoIndex
              THEN txNext[c] - (IF next_merchant_index = NoIndex
                                  THEN 0 ELSE next_merchant_index)
              ELSE 0)]
  /\ IF phase[c] = 1
       THEN /\ merchantIndex' = [merchantIndex EXCEPT ![c] = Returned(c)]
            /\ phase' = [phase EXCEPT ![c] = 2]
            /\ seenMax' = [seenMax EXCEPT ![c] =
                             Max(ReturnedPaymentIndices(merchantId[c]))]
            /\ pc' = [pc EXCEPT ![c] = "findUnique"]
            /\ UNCHANGED ensured
       ELSE /\ ensured' = [ensured EXCEPT ![c] = Returned(c)]
            /\ pc' = [pc EXCEPT ![c] = "paymentUpdate"]
            /\ UNCHANGED <<merchantIndex, phase, seenMax>>
  /\ UNCHANGED <<masterSeed, merchantId, existing, assignedIndex,
                 paymentIndex, result, err, hadMapping, pIncs>>
  /\ UNCHANGED keys

\* variant: the counter is read and returned, never incremented
PaymentUpdateNoIncrement(c) ==
  /\ pc[c] = "paymentUpdate"
  /\ merchant_index[merchantId[c]] # NoIndex
  /\ paymentIndex' = [paymentIndex EXCEPT ![c] = payment_counter[merchantId[c]]]
  /\ pc' = [pc EXCEPT ![c] = "derive"]
  /\ UNCHANGED <<store, txs, masterSeed, phase, merchantId, existing,
                 assignedIndex, merchantIndex, ensured, result, err, history>>
  /\ UNCHANGED keys

\* variant: the counter is incremented by 2
PaymentUpdateByTwo(c) ==
  /\ pc[c] = "paymentUpdate"
  /\ merchant_index[merchantId[c]] # NoIndex
  /\ payment_counter' = [payment_counter EXCEPT ![merchantId[c]] = @ + 2]
  /\ paymentIndex' = [paymentIndex EXCEPT ![c] =
       PreIncrement(payment_counter'[merchantId[c]])]
  /\ pIncs' = [pIncs EXCEPT ![c] = @ + 2]
  /\ pc' = [pc EXCEPT ![c] = "derive"]
  /\ UNCHANGED <<next_merchant_index, merchant_index, err, txs, masterSeed,
                 phase, merchantId, existing, assignedIndex, merchantIndex,
                 ensured, result, hadMapping, seenMax, gIncs>>
  /\ UNCHANGED keys

\* prisma.merchantHDIndex.update({ where: { merchantId },
\*   data: { payment_counter: { increment: 1 } } })
\* and return updated.payment_counter - 1
PaymentUpdate(c) ==
  /\ pc[c] = "paymentUpdate"
  /\ IF merchant_index[merchantId[c]] = NoIndex
       THEN /\ pc' = [pc EXCEPT ![c] = "failed"]
            /\ err' = [err EXCEPT ![c] = "notfound"]
            /\ UNCHANGED <<store, paymentIndex, pIncs>>
       ELSE /\ payment_counter' =
                 [payment_counter EXCEPT ![merchantId[c]] = @ + 1]
            /\ paymentIndex' = [paymentIndex EXCEPT ![c] =
                 PreIncrement(payment_counter'[merchantId[c]])]
            /\ pIncs' = [pIncs EXCEPT ![c] = @ + payment_counter'[merchantId[c]]
                                               - payment_counter[merchantId[c]]]
            /\ pc' = [pc EXCEPT ![c] = "derive"]
            /\ UNCHANGED <<next_merchant_index, merchant_index, err>>
  /\ UNCHANGED <<txs, masterSeed, phase, merchantId, existing, assignedIndex,
                 merchantIndex, ensured, result, hadMapping, seenMax, gIncs>>
  /\ UNCHANGED keys

\* deriveKeypairFromPath(merchantIndex, paymentIndex) with the seed at hand,
\* or fetched from the provider (getMasterSeed, lines 54-60)
Derive(c) ==
  /\ pc[c] = "derive"
  /\ masterSeed' = MasterSeedValue
  /\ LET path == DerivationPath(merchantIndex[c], paymentIndex[c])
     IN result' = [result EXCEPT ![c] =
          [publicKey |-> PublicKey(MasterSeedValue, path),
           merchantIndex |-> merchantIndex[c],
           paymentIndex |-> paymentIndex[c],
           derivationPath |-> path]]
  /\ pc' = [pc EXCEPT ![c] = "done"]
  /\ UNCHANGED <<store, txs, phase, merchantId, existing, assignedIndex,
                 merchantIndex, ensured, paymentIndex, err, history>>
  /\ UNCHANGED keys

\* variant: when the seed cannot be had the payment counter is put back
SeedFailReleasesIndex(c) ==
  /\ pc[c] = "derive"
  /\ masterSeed = NoSeed
  /\ pc' = [pc EXCEPT ![c] = "failed"]
  /\ err' = [err EXCEPT ![c] = "seed"]
  /\ payment_counter' = [payment_counter EXCEPT ![merchantId[c]] = @ - 1]
  /\ UNCHANGED <<next_merchant_index, merchant_index, txs, masterSeed,
                 locals, history>>
  /\ UNCHANGED keys
\* this.kmsProvider.getMasterSeed() rejects: no seed is held yet
SeedFail(c) ==
  /\ pc[c] = "derive"
  /\ masterSeed = NoSeed
  /\ pc' = [pc EXCEPT ![c] = "failed"]
  /\ err' = [err EXCEPT ![c] = "seed"]
  /\ UNCHANGED <<store, txs, masterSeed, locals, history>>
  /\ UNCHANGED keys

\* the backing store fails on the statement the call is about to run (or on
\* COMMIT): an open transaction is rolled back and the call rejects
StoreFail(c) ==
  /\ pc[c] \in StoreSteps
  /\ Rollback(c)
  /\ pc' = [pc EXCEPT ![c] = "failed"]
  /\ err' = [err EXCEPT ![c] = "store"]
  /\ UNCHANGED <<masterSeed, locals, history>>
  /\ UNCHANGED keys

Next ==
  \E c \in Calls :
    \/ \E m \in MerchantIds, p \in PaymentIds : Invoke(c, m, p)
    \/ FindUnique(c)
    \/ Upsert(c)
    \/ CounterUpdate(c)
    \/ MerchantCreate(c)
    \/ Commit(c)
    \/ PaymentUpdate(c)
    \/ Derive(c)
    \/ SeedFail(c)
    \/ StoreFail(c)

Spec == Init /\ [][Next]_vars

\* ---- regenerateKeypairFromPath on a returned path ----------------------

\* the caller of a completed derivePaymentAddress passes the path it was
\* given to regenerateKeypairFromPath (lines 327-337)
RegenerateDerived(c) ==
  /\ pc[c] = "done"
  /\ regen[c] = NoKeypair
  /\ masterSeed' = MasterSeedValue
  /\ regen' = [regen EXCEPT ![c] =
                 KeypairFromPath(MasterSeedValue, result[c].derivationPath)]
  /\ UNCHANGED <<store, txs, pc, locals, err, history, kmsProvider, extra,
                 klog, rng>>

NextRoundTrip ==
  \/ Next
  \/ \E c \in Calls : RegenerateDerived(c)

SpecRoundTrip == Init /\ [][NextRoundTrip]_vars

\* ---- key operations on one service -------------------------------------

\* a path written by a caller: "m/44'/148'/<mi>'/<pi>'"
PathText(mi, pi) ==
  <<"m", "/", "4", "4", "'", "/", "1", "4", "8", "'", "/">>
    \o Decimal(mi) \o <<"'", "/">> \o Decimal(pi) \o <<"'">>

\* the service after construction, with a seed string (lines 27-39), or with
\* a provider (lines 40-46); no call of derivePaymentAddress is in progress
InitService ==
  /\ next_merchant_index = NoIndex
  /\ merchant_index = [m \in MerchantIds |-> NoIndex]
  /\ payment_counter = [m \in MerchantIds |-> 0]
  /\ rowLock = NoCall
  /\ txNext = [c \in Calls |-> NoIndex]
  /\ txRow = [c \in Calls |-> NoIndex]
  /\ pc = [c \in Calls |-> "idle"]
  /\ phase = [c \in Calls |-> 1]
  /\ merchantId = [c \in Calls |-> 1]
  /\ existing = [c \in Calls |-> <<NoIndex, NoIndex>>]
  /\ assignedIndex = [c \in Calls |-> NoIndex]
  /\ merchantIndex = [c \in Calls |-> NoIndex]
  /\ ensured = [c \in Calls |-> NoIndex]
  /\ paymentIndex = [c \in Calls |-> NoIndex]
  /\ result = [c \in Calls |-> NoResult]
  /\ err = [c \in Calls |-> "none"]
  /\ hadMapping = [c \in Calls |-> FALSE]
  /\ seenMax = [c \in Calls |-> NoIndex]
  /\ gIncs = [c \in Calls |-> 0]
  /\ pIncs = [c \in Calls |-> 0]
  /\ kmsProvider \in [kind : ProviderKinds, seed : Seeds]
  /\ masterSeed = IF kmsProvider.kind = "direct" THEN kmsProvider.seed
                                                 ELSE NoSeed
  /\ regen = [c \in Calls |-> NoKeypair]
  /\ klog = <<>>
  /\ rng = 0
  /\ Quiet

\* a key operation completes and is recorded
Record(entry) ==
  /\ Len(klog) < MaxKeyOps
  /\ klog' = Append(klog, entry)

\* variant: the seed is not fetched; a fixed text stands in until it is held
SeedOrDefault ==
  IF masterSeed # NoSeed THEN masterSeed ELSE "default-hd-key"

\* the seed deriveKeypairFromPath works with (getSeedBuffer, line 95)
SeedForIndices == MasterSeedValue

\* regenerateKeypair(mi, pi) with numbers (lines 285-291, 316-320)
RegenerateKeypair(mi, pi) ==
  /\ Record([op |-> "regenerateKeypair", in |-> <<mi, pi>>,
             out |-> KeypairFromPath(SeedForIndices, DerivationPath(mi, pi))])
  /\ masterSeed' = MasterSeedValue
  /\ UNCHANGED <<store, txs, pc, locals, err, history, kmsProvider, extra,
                 regen, rng>>

\* regenerateKeypairFromPath(path) (lines 327-337)
RegenerateKeypairFromPath(path) ==
  /\ Record([op |-> "regenerateKeypairFromPath", in |-> path,
             out |-> KeypairFromPath(MasterSeedValue, path)])
  /\ masterSeed' = MasterSeedValue
  /\ UNCHANGED <<store, txs, pc, locals, err, history, kmsProvider, extra,
                 regen, rng>>

\* variant: every claimed key is accepted
AnyKeyMatches(derived, publicKey) == TRUE

\* derived === publicKey
KeyMatches(derived, publicKey) == derived = publicKey

\* verifyAddress(mi, pi, publicKey) (lines 342-352)
VerifyAddress(mi, pi, publicKey) ==
  /\ LET kp == KeypairFromPath(SeedForIndices, DerivationPath(mi, pi))
     IN Record([op |-> "verifyAddress", in |-> <<mi, pi, publicKey>>,
                out |-> [error |-> kp.error,
                         value |-> KeyMatches(kp.publicKey, publicKey)]])
  /\ masterSeed' = MasterSeedValue
  /\ UNCHANGED <<store, txs, pc, locals, err, history, kmsProvider, extra,
                 regen, rng>>

DeriveOps == {"regenerateKeypair", "regenerateKeypairFromPath",
              "verifyAddress"}

\* this.kmsProvider.getMasterSeed() rejects while no seed is held: the
\* operation rejects with the provider's error
SeedUnavailable(op) ==
  /\ masterSeed = NoSeed
  /\ Record([op |-> op, in |-> <<>>,
             out |-> [error |-> "seed unavailable"]])
  /\ UNCHANGED <<store, txs, masterSeed, pc, locals, err, history,
                 kmsProvider, extra, regen, rng>>

\* public keys a caller may claim for (mi, pi): the right one and the one
\* of another payment index
ClaimedKeys(mi, pi) ==
  {KeypairFromPath(kmsProvider.seed, PathText(mi, p)).publicKey :
     p \in {pi, IF pi = 0 THEN LargestIndex ELSE 0}}

NextDerive ==
  \/ \E mi, pi \in Indices : RegenerateKeypair(mi, pi)
  \/ \E mi, pi \in Indices : RegenerateKeypairFromPath(PathText(mi, pi))
  \/ \E mi, pi \in Indices :
       \E k \in ClaimedKeys(mi, pi) : VerifyAddress(mi, pi, k)
  \/ \E op \in DeriveOps : SeedUnavailable(op)

SpecDerive == InitService /\ [][NextDerive]_vars

\* ---- encryptKeyData / decryptKeyData on one service --------------------

\* A blob is a sequence of tokens: a delimiter character, or the text of a
\* byte string in hex or base64.  The text remembers how it is spelled;
\* the byte string is what a decoder reads from it.
Colon == [kind |-> "delim", bytes |-> <<":">>, spelling |-> "canonical"]
Bar == [kind |-> "delim", bytes |-> <<"|">>, spelling |-> "canonical"]

\* buf.toString("hex"): lower-case digits
ToHex(bytes) == [kind |-> "hex", bytes |-> bytes, spelling |-> "canonical"]

\* buf.toString("base64")
ToBase64(bytes) ==
  [kind |-> "base64", bytes |-> bytes, spelling |-> "canonical"]

\* a field that split() did not deliver
Undefined == <<"undefined">>

\* Buffer.from(field, "hex" | "base64") and the "hex" input encoding of
\* decipher.update: the spelling (upper or lower case digits) is not looked at
FromText(field) == IF Len(field) = 1 THEN field[1].bytes ELSE Undefined

\* JSON.stringify({ merchantIndex, paymentIndex })
Stringify(mi, pi) ==
  <<"{", "\"merchantIndex\"", ":">> \o Decimal(mi)
    \o <<",", "\"paymentIndex\"", ":">> \o Decimal(pi) \o <<"}">>

NoPair == [merchantIndex |-> NoIndex, paymentIndex |-> NoIndex]

\* JSON.parse of a text of that form
JsonParse(text) ==
  LET comma == CHOOSE k \in 1..Len(text) : text[k] = ","
  IN [merchantIndex |-> ParseInt(SubSeq(text, 4, comma - 1)),
      paymentIndex |-> ParseInt(SubSeq(text, comma + 3, Len(text) - 1))]

\* createCipheriv("aes-256-gcm", key, iv): update, final, getAuthTag
GcmSeal(key, iv, plaintext) ==
  [enc |-> <<"enc", key, iv, plaintext>>,
   tag |-> <<"tag", key, iv, plaintext>>]

AuthError == "Unsupported state or unable to authenticate data"

\* createDecipheriv("aes-256-gcm", key, iv), setAuthTag, update, final:
\* final() throws unless the tag belongs to this key, iv and ciphertext
GcmOpen(key, iv, tag, enc) ==
  IF /\ enc[1] = "enc" /\ tag[1] = "tag" /\ iv[1] = "rand"
     /\ enc[2] = key /\ enc[3] = iv
     /\ tag = <<"tag", key, iv, enc[4]>>
    THEN [error |-> "none", text |-> enc[4]]
    ELSE [error |-> AuthError, text |-> <<>>]

\* variant: randomBytes returns the same bytes on every call
RandomBytesFixed == <<"rand", 0>>

\* crypto.randomBytes(16): bytes not returned before
RandomBytes == <<"rand", rng>>

\* GenerateDataKey of AWS KMS: a data key not returned before
PlainDataKey == <<"datakey", rng>>

\* the CiphertextBlob of a data key under the provider's KMS key
Wrap(dataKey) == <<"wrapped", KeyId, dataKey>>

\* DecryptCommand of AWS KMS on a CiphertextBlob
KmsDecrypt(blob) ==
  IF blob[1] = "wrapped" /\ blob[2] = KeyId
    THEN [error |-> "none", key |-> blob[3]]
    ELSE [error |-> "InvalidCiphertextException", key |-> Undefined]

\* the key of the local AES-256-GCM routines (lines 212-216, 232-236):
\* SHA-256 of (this.masterSeed || "default-hd-key") + ":hd-key-data"
LocalKey ==
  <<"sha256", IF masterSeed # NoSeed THEN masterSeed ELSE "default-hd-key",
    ":hd-key-data">>

FormatError == "Invalid encrypted key data format"
AwsEncryptError == "Failed to encrypt data with AWS KMS"
AwsDecryptError == "Failed to decrypt data with AWS KMS"

\* _localEncrypt(plaintext): `${iv}:${tag}:${enc}`, all in hex
LocalEncrypt(plaintext) ==
  LET iv == RandomBytes
      sealed == GcmSeal(LocalKey, iv, plaintext)
  IN [error |-> "none",
      blob |-> <<ToHex(iv), Colon, ToHex(sealed.tag), Colon,
                 ToHex(sealed.enc)>>]

\* _localDecrypt(ciphertext)
LocalDecrypt(blob) ==
  LET parts == Split(blob, Colon)
  IN IF Len(parts) # 3
       THEN [error |-> FormatError, text |-> <<>>]
       ELSE GcmOpen(LocalKey, FromText(parts[1]), FromText(parts[2]),
                    FromText(parts[3]))

\* AWSKMSProvider.encrypt(data): `${encryptedDataKey}|${iv}|${tag}|${enc}`;
\* up: the KMS answers GenerateDataKey
AwsEncrypt(plaintext, up) ==
  IF ~up THEN [error |-> AwsEncryptError, blob |-> <<>>]
  ELSE LET iv == RandomBytes
           sealed == GcmSeal(PlainDataKey, iv, plaintext)
       IN [error |-> "none",
           blob |-> <<ToBase64(Wrap(PlainDataKey)), Bar, ToHex(iv), Bar,
                      ToHex(sealed.tag), Bar, ToHex(sealed.enc)>>]

\* AWSKMSProvider.decrypt(data): the first four fields of data.split("|")
\* are used, whatever their number; every failure inside the try block is
\* rethrown as the same error.  up: the KMS answers Decrypt
AwsDecrypt(blob, up) ==
  LET parts == Split(blob, Bar)
      field(i) == IF i <= Len(parts) THEN FromText(parts[i]) ELSE Undefined
      response == KmsDecrypt(field(1))
  IN IF ~up \/ response.error # "none"
       THEN [error |-> AwsDecryptError, text |-> <<>>]
       ELSE LET opened == GcmOpen(response.key, field(2), field(3), field(4))
            IN IF opened.error # "none"
                 THEN [error |-> AwsDecryptError, text |-> <<>>]
                 ELSE opened

\* variant: the provider's capability is never looked for
HasCapabilityNever(provider) == FALSE

\* this.kmsProvider.encrypt / .decrypt is defined: the provider built around
\* a seed string (lines 33-39) and AWSKMSProvider have both, the interface
\* makes them optional (IKMSProvider.ts lines 32, 37)
HasCapability(provider) == provider.kind \in {"direct", "aws"}

\* this.kmsProvider.encrypt(payload) of a provider that has it
ProviderEncrypt(payload, up) ==
  IF kmsProvider.kind = "aws" THEN AwsEncrypt(payload, up)
                              ELSE LocalEncrypt(payload)

\* this.kmsProvider.decrypt(encrypted) of a provider that has it
ProviderDecrypt(blob, up) ==
  IF kmsProvider.kind = "aws" THEN AwsDecrypt(blob, up)
                              ELSE LocalDecrypt(blob)

\* the key material a call works with: the local key, or the KMS key
KeyUsed(via) ==
  IF via = "provider" /\ kmsProvider.kind = "aws" THEN <<"kms", KeyId>>
                                                  ELSE LocalKey

\* encryptKeyData(mi, pi) (lines 177-189)
EncryptKeyData(mi, pi, up) ==
  /\ up \/ kmsProvider.kind = "aws"
  /\ LET payload == Stringify(mi, pi)
         via == IF HasCapability(kmsProvider) THEN "provider" ELSE "fallback"
         r == IF HasCapability(kmsProvider) THEN ProviderEncrypt(payload, up)
                                            ELSE LocalEncrypt(payload)
     IN /\ Record([op |-> "encryptKeyData", in |-> <<mi, pi>>, out |-> r,
                   via |-> via, key |-> KeyUsed(via), up |-> up])
        /\ rng' = IF r.error = "none" THEN rng + 1 ELSE rng
  /\ UNCHANGED <<store, txs, masterSeed, pc, locals, err, history,
                 kmsProvider, extra, regen>>

\* decryptKeyData(encrypted) (lines 194-206)
DecryptKeyData(blob, up) ==
  /\ up \/ kmsProvider.kind = "aws"
  /\ LET via == IF HasCapability(kmsProvider) THEN "provider" ELSE "fallback"
         r == IF HasCapability(kmsProvider) THEN ProviderDecrypt(blob, up)
                                            ELSE LocalDecrypt(blob)
         pair == IF r.error = "none" THEN JsonParse(r.text) ELSE NoPair
     IN Record([op |-> "decryptKeyData", in |-> blob,
                out |-> [error |-> r.error,
                         merchantIndex |-> pair.merchantIndex,
                         paymentIndex |-> pair.paymentIndex],
                via |-> via, key |-> KeyUsed(via), up |-> up])
  /\ UNCHANGED <<store, txs, masterSeed, pc, locals, err, history,
                 kmsProvider, extra, regen, rng>>

\* a derivation on the service fetches the seed (lines 54-60); its result is
\* not recorded here
GetMasterSeed ==
  /\ masterSeed = NoSeed
  /\ masterSeed' = kmsProvider.seed
  /\ UNCHANGED <<store, txs, pc, locals, err, history, keys>>

\* what a caller does to a stored blob before presenting it
Edits == {"none", "respell", "corruptText", "corruptTag", "extraField",
          "dropField"}

\* the blob after the edit: the last field respelled with upper-case hex
\* digits, the bytes of the ciphertext or of the tag changed, a field added
\* at the end, the last field cut off
Edited(blob, edit) ==
  LET n == Len(blob)
  IN CASE edit = "none" -> blob
       [] edit = "respell" ->
            [blob EXCEPT ![n].spelling = "uppercase"]
       [] edit = "corruptText" ->
            [blob EXCEPT ![n].bytes = <<"flip", @>>]
       [] edit = "corruptTag" ->
            [blob EXCEPT ![n - 2].bytes = <<"flip", @>>]
       [] edit = "extraField" ->
            blob \o <<blob[n - 1], ToHex(<<"rand", 0>>)>>
       [] edit = "dropField" -> SubSeq(blob, 1, n - 2)

\* the blobs encryptKeyData has returned on this service
Produced(i) ==
  /\ i \in 1..Len(klog)
  /\ klog[i].op = "encryptKeyData"
  /\ klog[i].out.error = "none"

NextCodec ==
  \/ \E mi, pi \in Indices, up \in BOOLEAN : EncryptKeyData(mi, pi, up)
  \/ \E i \in 1..Len(klog), edit \in Edits, up \in BOOLEAN :
       Produced(i) /\ DecryptKeyData(Edited(klog[i].out.blob, edit), up)
  \/ GetMasterSeed

SpecCodec == InitService /\ [][NextCodec]_vars

\* ---- construction and arguments of the derivation operations ----------

\* no service was constructed
Unbuilt == [kind |-> "none", seed |-> NoSeed]

\* what the constructor is called with: a string, a provider object, nothing
ConstructorArgs ==
  {[type |-> "string", seed |-> ""], [type |-> "string", seed |-> Seed],
   [type |-> "provider", seed |-> Seed], [type |-> "undefined", seed |-> Seed]}

MissingSeedError == "Master seed is required"

\* variant: the argument is tested for truth before its type
ConstructorTruthFirst(arg) ==
  IF arg.type = "string" /\ arg.seed # ""
    THEN [error |-> "none", masterSeed |-> arg.seed,
          kmsProvider |-> [kind |-> "direct", seed |-> arg.seed]]
  ELSE IF arg.type = "provider"
    THEN [error |-> "none", masterSeed |-> NoSeed,
          kmsProvider |-> [kind |-> "plain", seed |-> arg.seed]]
    ELSE [error |-> "none", masterSeed |-> NoSeed,
          kmsProvider |-> [kind |-> "factory", seed |-> arg.seed]]

\* constructor(masterSeedOrKmsProvider) (lines 26-47): the fields of the new
\* service, or the error thrown
Constructor(arg) ==
  IF arg.type = "string"
    THEN IF arg.seed = ""
           THEN [error |-> MissingSeedError, masterSeed |-> NoSeed,
                 kmsProvider |-> Unbuilt]
           ELSE [error |-> "none", masterSeed |-> arg.seed,
                 kmsProvider |-> [kind |-> "direct", seed |-> arg.seed]]
  ELSE IF arg.type = "provider"
    THEN [error |-> "none", masterSeed |-> NoSeed,
          kmsProvider |-> [kind |-> "plain", seed |-> arg.seed]]
    ELSE [error |-> "none", masterSeed |-> NoSeed,
          kmsProvider |-> [kind |-> "factory", seed |-> arg.seed]]

\* A JavaScript number n + plus + (half ? 0.5 : 0): 2^31 is written as
\* LargestIndex + 1, since it does not fit the integers of the model.
Number(n, plus, half) == [n |-> n, plus |-> plus, half |-> half]

Whole(n) == Number(n, 0, FALSE)

\* the number is an integer of [0, 2^31)
InRange(x) == x.n >= 0 /\ x.plus = 0 /\ ~x.half

RECURSIVE IncText(_)
\* the digits of the successor of a number
IncText(digits) ==
  IF Len(digits) = 0 THEN <<"1">>
  ELSE LET last == DigitValue(digits[Len(digits)])
           front == SubSeq(digits, 1, Len(digits) - 1)
       IN IF last < 9 THEN front \o <<DigitChars[last + 2]>>
                      ELSE IncText(front) \o <<"0">>

\* variant: the sign of the number is not written
NumberTextUnsigned(x) ==
  LET abs == IF x.n < 0 THEN 0 - x.n ELSE x.n
      digits == IF x.plus = 1 THEN IncText(Decimal(abs)) ELSE Decimal(abs)
  IN digits \o (IF x.half THEN <<".", "5">> ELSE <<>>)

\* `${x}` of a number
NumberText(x) ==
  LET abs == IF x.n < 0 THEN 0 - x.n ELSE x.n
      digits == IF x.plus = 1 THEN IncText(Decimal(abs)) ELSE Decimal(abs)
  IN (IF x.n < 0 THEN <<"-">> ELSE <<>>) \o digits
       \o (IF x.half THEN <<".", "5">> ELSE <<>>)

\* the template of line 94 over any two numbers
DerivationPathOfNumbers(x, y) ==
  <<"m", "/">> \o Decimal(BIP44_PURPOSE) \o <<"'", "/">>
    \o Decimal(STELLAR_COIN_TYPE) \o <<"'", "/">>
    \o NumberText(x) \o <<"'", "/">> \o NumberText(y) \o <<"'">>

RECURSIVE JoinPath(_)
\* "m" followed by "/" and a segment, for every segment
JoinPath(segments) ==
  IF Len(segments) = 0 THEN <<"m">>
  ELSE JoinPath(SubSeq(segments, 1, Len(segments) - 1))
         \o <<"/">> \o segments[Len(segments)]

\* segments written by a caller
Hard(n) == Decimal(n) \o <<"'">>
Soft(n) == Decimal(n)

\* paths passed to regenerateKeypairFromPath: the right form, another
\* purpose, another coin type, three and five segments, a segment without
\* the hardened marker
PathInputs ==
  {JoinPath(<<Hard(44), Hard(148), Hard(0), Hard(LargestIndex)>>),
   JoinPath(<<Hard(45), Hard(148), Hard(0), Hard(0)>>),
   JoinPath(<<Hard(44), Hard(0), Hard(0), Hard(0)>>),
   JoinPath(<<Hard(44), Hard(148), Hard(0)>>),
   JoinPath(<<Hard(44), Hard(148), Hard(0), Hard(0), Hard(0)>>),
   JoinPath(<<Hard(44), Hard(148), Hard(0), Soft(0)>>)}

\* numbers passed as indices: both ends of [0, 2^31), -1, 2^31 and 0.5
Numbers ==
  {Whole(0), Whole(LargestIndex), Whole(-1), Number(LargestIndex, 1, FALSE),
   Number(0, 0, TRUE)}

NumberPairs ==
  {<<x, Whole(0)>> : x \in Numbers} \cup {<<Whole(0), y>> : y \in Numbers}

\* no derivePaymentAddress call was made
NoAllocationCalls ==
  /\ rowLock = NoCall
  /\ txNext = [c \in Calls |-> NoIndex]
  /\ txRow = [c \in Calls |-> NoIndex]
  /\ pc = [c \in Calls |-> "idle"]
  /\ phase = [c \in Calls |-> 1]
  /\ merchantId = [c \in Calls |-> 1]
  /\ existing = [c \in Calls |-> <<NoIndex, NoIndex>>]
  /\ assignedIndex = [c \in Calls |-> NoIndex]
  /\ merchantIndex = [c \in Calls |-> NoIndex]
  /\ ensured = [c \in Calls |-> NoIndex]
  /\ paymentIndex = [c \in Calls |-> NoIndex]
  /\ result = [c \in Calls |-> NoResult]
  /\ err = [c \in Calls |-> "none"]
  /\ hadMapping = [c \in Calls |-> FALSE]
  /\ seenMax = [c \in Calls |-> NoIndex]
  /\ gIncs = [c \in Calls |-> 0]
  /\ pIncs = [c \in Calls |-> 0]
  /\ regen = [c \in Calls |-> NoKeypair]

\* no service yet; the store as earlier allocations left it: merchant 1 has
\* index 0 and two addresses, or no merchant has a mapping; the Payment row
\* "pay_1" is absent, or carries null, 0 or 1
InitInputs ==
  /\ NoAllocationCalls
  /\ \E mapped \in BOOLEAN :
       /\ next_merchant_index = IF mapped THEN 1 ELSE NoIndex
       /\ merchant_index =
            [m \in MerchantIds |-> IF mapped /\ m = 1 THEN 0 ELSE NoIndex]
       /\ payment_counter =
            [m \in MerchantIds |-> IF mapped /\ m = 1 THEN 2 ELSE 0]
  /\ \E row \in {NoRow, NoIndex, 0, 1} :
       payment_index = [p \in PaymentIds |-> IF p = "pay_1" THEN row
                                                            ELSE NoRow]
  /\ masterSeed = NoSeed
  /\ kmsProvider = Unbuilt
  /\ klog = <<>>
  /\ rng = 0
  /\ envSeed = WrappedSeed
  /\ encryptedSeed = NoSeed
  /\ cachedSeed = NoSeed
  /\ cacheExpiry = 0
  /\ now = 0
  /\ kcall = [c \in Calls |-> IdleCall]
  /\ fetchedAt = NoTime
  /\ loadedAt = NoTime
  /\ Untouched

Built == kmsProvider.kind # "none"

\* new HDWalletService(arg)
Construct(arg) ==
  /\ ~Built
  /\ LET r == Constructor(arg)
     IN /\ Record([op |-> "constructor", in |-> arg,
                   out |-> [error |-> r.error]])
        /\ masterSeed' = r.masterSeed
        /\ kmsProvider' = r.kmsProvider
  /\ UNCHANGED <<store, txs, pc, locals, err, history, regen, rng, extra>>

SeedError == "seed unavailable"
NoIndexError == "No HD index found for merchant"
NoPaymentIndexError == "No payment_index stored for payment"

Failed(failure) == [error |-> failure, publicKey |-> <<>>, secretKey |-> <<>>]

\* deriveKeypairFromPath over two numbers (lines 86-107): the path is
\* written, the seed is fetched unless held (avail: the provider answers),
\* then derivePath runs
DeriveFromNumbers(x, y, avail) ==
  IF ~avail THEN Failed(SeedError)
            ELSE KeypairFromPath(MasterSeedValue, DerivationPathOfNumbers(x, y))

\* the seed a call leaves in this.masterSeed
SeedAfter(avail) == IF avail THEN MasterSeedValue ELSE masterSeed

\* regenerateKeypair(x, y) with any two numbers (lines 285-291, 316-320)
RegenerateKeypairNumbers(x, y, avail) ==
  /\ Built
  /\ avail \/ masterSeed = NoSeed
  /\ Record([op |-> "regenerateKeypair", in |-> <<x, y>>,
             out |-> DeriveFromNumbers(x, y, avail)])
  /\ masterSeed' = SeedAfter(avail)
  /\ UNCHANGED <<store, txs, pc, locals, err, history, kmsProvider, extra,
                 regen, rng>>

\* verifyAddress(x, y, publicKey) with any two numbers (lines 342-352)
VerifyAddressNumbers(x, y, publicKey, avail) ==
  /\ Built
  /\ avail \/ masterSeed = NoSeed
  /\ LET kp == DeriveFromNumbers(x, y, avail)
     IN Record([op |-> "verifyAddress", in |-> <<x, y, publicKey>>,
                out |-> [error |-> kp.error,
                         value |-> kp.error = "none"
                                     /\ KeyMatches(kp.publicKey, publicKey)]])
  /\ masterSeed' = SeedAfter(avail)
  /\ UNCHANGED <<store, txs, pc, locals, err, history, kmsProvider, extra,
                 regen, rng>>

\* variant: a null payment_index is read as index 0
LookupIndicesNullAsZero(m, p) ==
  IF merchant_index[m] = NoIndex
    THEN [error |-> NoIndexError, merchantIndex |-> NoIndex,
          paymentIndex |-> NoIndex]
  ELSE IF payment_index[p] = NoRow
    THEN [error |-> NoPaymentIndexError, merchantIndex |-> NoIndex,
          paymentIndex |-> NoIndex]
    ELSE [error |-> "none", merchantIndex |-> merchant_index[m],
          paymentIndex |-> IF payment_index[p] = NoIndex
                             THEN 0 ELSE payment_index[p]]

\* the two lookups of regenerateKeypair with identifiers (lines 293-313):
\* merchantHDIndex by merchantId, then Payment by id
LookupIndices(m, p) ==
  IF merchant_index[m] = NoIndex
    THEN [error |-> NoIndexError, merchantIndex |-> NoIndex,
          paymentIndex |-> NoIndex]
  ELSE IF payment_index[p] \in {NoRow, NoIndex}
    THEN [error |-> NoPaymentIndexError, merchantIndex |-> NoIndex,
          paymentIndex |-> NoIndex]
    ELSE [error |-> "none", merchantIndex |-> merchant_index[m],
          paymentIndex |-> payment_index[p]]

\* variant: the identifier form takes a fresh payment index for the merchant
\* (getNextPaymentIndex) instead of reading the Payment row
RegenerateKeypairByIdAllocates(m, p, avail) ==
  /\ Built
  /\ avail
  /\ merchant_index[m] # NoIndex
  /\ payment_counter' = [payment_counter EXCEPT ![m] = @ + 1]
  /\ Record([op |-> "regenerateKeypairById", in |-> <<m, p>>,
             out |-> DeriveFromNumbers(Whole(merchant_index[m]),
                                       Whole(payment_counter[m]), avail)])
  /\ masterSeed' = SeedAfter(avail)
  /\ UNCHANGED <<next_merchant_index, merchant_index, txs, pc, locals, err,
                 history, kmsProvider, extra, regen, rng>>
\* regenerateKeypair(merchantId, paymentId) with identifiers (lines 292-320);
\* nothing writes the store between the two lookups here
RegenerateKeypairById(m, p, avail) ==
  /\ Built
  /\ LET found == LookupIndices(m, p)
     IN IF found.error # "none"
          THEN /\ avail
               /\ Record([op |-> "regenerateKeypairById", in |-> <<m, p>>,
                          out |-> Failed(found.error)])
               /\ UNCHANGED masterSeed
          ELSE /\ avail \/ masterSeed = NoSeed
               /\ Record([op |-> "regenerateKeypairById", in |-> <<m, p>>,
                          out |-> DeriveFromNumbers(
                                    Whole(found.merchantIndex),
                                    Whole(found.paymentIndex), avail)])
               /\ masterSeed' = SeedAfter(avail)
  /\ UNCHANGED <<store, txs, pc, locals, err, history, kmsProvider, extra,
                 regen, rng>>

\* a well-formed key a caller may claim
SomeKey == KeypairFromPath(Seed, PathText(0, 0)).publicKey

NextInputs ==
  \/ \E arg \in ConstructorArgs : Construct(arg)
  \/ \E path \in PathInputs : Built /\ RegenerateKeypairFromPath(path)
  \/ Built /\ SeedUnavailable("regenerateKeypairFromPath")
  \/ \E xy \in NumberPairs, avail \in BOOLEAN :
       RegenerateKeypairNumbers(xy[1], xy[2], avail)
  \/ \E xy \in NumberPairs, avail \in BOOLEAN :
       VerifyAddressNumbers(xy[1], xy[2], SomeKey, avail)
  \/ \E m \in MerchantIds, p \in PaymentIds, avail \in BOOLEAN :
       RegenerateKeypairById(m, p, avail)

SpecInputs == InitInputs /\ [][NextInputs]_vars

\* ---- the seed cache of the AWS provider --------------------------------

NotConfiguredError == "KMS_ENCRYPTED_MASTER_SEED not configured"
KmsFailedError == "Failed to retrieve master seed from KMS"

\* the instants at which the clock is read: the multiples of the
\* time-to-live and the millisecond before each; the advance from instant t
\* to the next, and the number of advances that lead to t
Step(t) == IF t % CACHE_TTL = 0 THEN CACHE_TTL - 1 ELSE 1
TicksOf(t) == 2 * (t \div CACHE_TTL) + (IF t % CACHE_TTL = 0 THEN 0 ELSE 1)

\* an AWS provider (lines 16-18) with or without the environment variable,
\* or a service built from a seed string (lines 28-39), just constructed
InitKms ==
  /\ NoAllocationCalls
  /\ next_merchant_index = NoIndex
  /\ merchant_index = [m \in MerchantIds |-> NoIndex]
  /\ payment_counter = [m \in MerchantIds |-> 0]
  /\ payment_index = [p \in PaymentIds |-> NoRow]
  /\ kmsProvider \in {[kind |-> "aws", seed |-> Seed],
                      [kind |-> "direct", seed |-> Seed]}
  /\ masterSeed = IF kmsProvider.kind = "direct" THEN Seed ELSE NoSeed
  /\ klog = <<>>
  /\ rng = 0
  /\ envSeed \in IF kmsProvider.kind = "aws" THEN {"", WrappedSeed}
                                             ELSE {""}
  /\ encryptedSeed = NoSeed
  /\ cachedSeed = NoSeed
  /\ cacheExpiry = 0
  /\ now = 0
  /\ kcall = [c \in Calls |-> IdleCall]
  /\ fetchedAt = NoTime
  /\ loadedAt = NoTime
  /\ Untouched

Aws == kmsProvider.kind = "aws"

\* a caller may start its next call when its last one has settled
Startable(c) == kcall[c].pc \in {"idle", "done", "failed"}
InFlight == {c \in Calls : kcall[c].pc = "sent"}

\* Date.now() advances
Tick ==
  /\ TicksOf(now) < MaxTicks
  /\ now' = now + Step(now)
  /\ UNCHANGED <<store, txs, masterSeed, pc, locals, err, history,
                 kmsProvider, regen, klog, rng, later, awsProvider,
                 payment_index, kcall, fetchedAt, loadedAt>>

\* variant: a seed is served at the instant of its expiry
CacheValidInclusive == cachedSeed # NoSeed /\ now <= cacheExpiry
\* this.cachedSeed && Date.now() < this.cacheExpiry (line 46)
CacheValid == cachedSeed # NoSeed /\ now < cacheExpiry

\* !this.encryptedSeed (line 50): null or the empty string
NoWrappedSeed == encryptedSeed \in {NoSeed, ""}
\* line 52, or the field as it was
WrappedSeedRead == IF NoWrappedSeed THEN envSeed ELSE encryptedSeed
\* the throw of line 54
Unconfigured == WrappedSeedRead = ""

\* the seed fetched at time t is CACHE_TTL old or older
Stale(t) == t # NoTime /\ now >= t + CACHE_TTL

\* the CiphertextBlob of a seed under the KMS key (lines 95-98)
WrapSeed(seed) == IF seed = Seed THEN WrappedSeed ELSE WrappedHexSeed

\* the plaintext of the KMS response (line 68)
Plaintext(blob) == IF blob = WrappedSeed THEN Seed
                   ELSE IF blob = WrappedHexSeed THEN HexSeedLower
                   ELSE NoSeed

Settled(op, seed, failure, stale) ==
  [pc |-> IF failure = "none" THEN "done" ELSE "failed", op |-> op,
   ret |-> seed, err |-> failure, sent |-> FALSE, kms |-> "none",
   stale |-> stale, raced |-> FALSE, blob |-> NoSeed, want |-> stored]

\* variant: a call that finds another one awaiting the KMS does not send; it
\* returns the cache field as it is
ProviderStartSingleFlight(c, op) ==
  IF InFlight \ {c} # {}
    THEN /\ kcall' = [kcall EXCEPT ![c] =
                        [Settled(op, cachedSeed, "none", FALSE)
                           EXCEPT !.raced = TRUE]]
         /\ UNCHANGED encryptedSeed
    ELSE IF CacheValid
    THEN /\ kcall' = [kcall EXCEPT ![c] =
                        Settled(op, cachedSeed, "none", Stale(fetchedAt))]
         /\ UNCHANGED encryptedSeed
    ELSE /\ encryptedSeed' = WrappedSeedRead
         /\ kcall' = [kcall EXCEPT ![c] =
              IF Unconfigured
                THEN Settled(op, NoSeed, NotConfiguredError, FALSE)
                ELSE [pc |-> "sent", op |-> op, ret |-> NoSeed,
                      err |-> "none", sent |-> TRUE, kms |-> "none",
                      stale |-> FALSE, raced |-> FALSE,
                      blob |-> WrappedSeedRead, want |-> stored]]
\* AWSKMSProvider.getMasterSeed up to its await (lines 44-67): the cached
\* seed is returned, or the call fails for want of a wrapped seed, or the
\* DecryptCommand is sent
ProviderStart(c, op) ==
  IF CacheValid
    THEN /\ kcall' = [kcall EXCEPT ![c] =
                        Settled(op, cachedSeed, "none", Stale(fetchedAt))]
         /\ UNCHANGED encryptedSeed
    ELSE /\ encryptedSeed' = WrappedSeedRead
         /\ kcall' = [kcall EXCEPT ![c] =
              IF Unconfigured
                THEN Settled(op, NoSeed, NotConfiguredError, FALSE)
                ELSE [pc |-> "sent", op |-> op, ret |-> NoSeed,
                      err |-> "none", sent |-> TRUE, kms |-> "none",
                      stale |-> FALSE, raced |-> InFlight \ {c} # {},
                      blob |-> WrappedSeedRead, want |-> stored]]

\* provider.getMasterSeed() called on the provider itself: the AWS provider,
\* or the provider of line 34 that returns this.masterSeed
ProviderGetMasterSeed(c) ==
  /\ Startable(c)
  /\ IF Aws
       THEN ProviderStart(c, "getMasterSeed")
       ELSE /\ kcall' = [kcall EXCEPT ![c] =
                           Settled("getMasterSeed", masterSeed, "none",
                                   FALSE)]
            /\ UNCHANGED encryptedSeed
  /\ UNCHANGED <<store, txs, masterSeed, pc, locals, err, history,
                 kmsProvider, regen, klog, rng, later, envSeed,
                 payment_index, cachedSeed, cacheExpiry, now, fetchedAt, loadedAt>>

\* this.masterSeed is set (line 55)
HeldSeed == masterSeed # NoSeed

\* HDWalletService.getMasterSeed up to its await (lines 54-58): the seed the
\* service holds is returned, or the provider is asked; a seed the provider
\* returns from its cache is assigned to this.masterSeed
ServiceGetMasterSeed(c) ==
  /\ Startable(c)
  /\ IF HeldSeed
       THEN /\ kcall' = [kcall EXCEPT ![c] =
                           Settled("service.getMasterSeed", masterSeed,
                                   "none", Stale(loadedAt))]
            /\ UNCHANGED <<encryptedSeed, masterSeed, loadedAt>>
       ELSE /\ ProviderStart(c, "service.getMasterSeed")
            /\ masterSeed' = IF CacheValid THEN cachedSeed ELSE masterSeed
            /\ loadedAt' = IF CacheValid THEN fetchedAt ELSE loadedAt
  /\ UNCHANGED <<store, txs, pc, locals, err, history, kmsProvider, regen,
                 klog, rng, later, envSeed, cachedSeed, cacheExpiry,
                 payment_index, now, fetchedAt>>

\* variant: a failed fetch empties the cache
RespondFailureClears(c, ok) ==
  /\ kcall[c].pc = "sent"
  /\ LET seed == Plaintext(kcall[c].blob)
         mine == kcall[c].op = "service.getMasterSeed"
     IN  /\ kcall' = [kcall EXCEPT ![c] =
              IF ok THEN [@ EXCEPT !.pc = "done", !.ret = seed, !.kms = "ok"]
                    ELSE [@ EXCEPT !.pc = "failed", !.err = KmsFailedError,
                                   !.kms = "failed"]]
         /\ cachedSeed' = IF ok THEN seed ELSE NoSeed
         /\ cacheExpiry' = IF ok THEN now + CACHE_TTL ELSE 0
         /\ fetchedAt' = IF ok THEN now ELSE NoTime
         /\ masterSeed' = IF ok /\ mine THEN seed ELSE masterSeed
         /\ loadedAt' = IF ok /\ mine THEN now ELSE loadedAt
  /\ UNCHANGED <<store, txs, pc, locals, err, history, kmsProvider, regen,
                 klog, rng, later, payment_index, envSeed,
                 encryptedSeed, now>>
\* the KMS answers the DecryptCommand of call c (lines 67-78): the plaintext
\* is cached with an expiry CACHE_TTL after this moment and returned, or the
\* call fails; line 58 of the service assigns the seed to this.masterSeed
Respond(c, ok) ==
  /\ kcall[c].pc = "sent"
  /\ LET seed == Plaintext(kcall[c].blob)
         mine == kcall[c].op = "service.getMasterSeed"
     IN  /\ kcall' = [kcall EXCEPT ![c] =
              IF ok THEN [@ EXCEPT !.pc = "done", !.ret = seed, !.kms = "ok"]
                    ELSE [@ EXCEPT !.pc = "failed", !.err = KmsFailedError,
                                   !.kms = "failed"]]
         /\ cachedSeed' = IF ok THEN seed ELSE cachedSeed
         /\ cacheExpiry' = IF ok THEN now + CACHE_TTL ELSE cacheExpiry
         /\ fetchedAt' = IF ok THEN now ELSE fetchedAt
         /\ masterSeed' = IF ok /\ mine THEN seed ELSE masterSeed
         /\ loadedAt' = IF ok /\ mine THEN now ELSE loadedAt
  /\ UNCHANGED <<store, txs, pc, locals, err, history, kmsProvider, regen,
                 klog, rng, later, payment_index, envSeed,
                 encryptedSeed, now>>

\* variant: a rotation drops the cached seed
RotateInvalidates(c) ==
  /\ Aws
  /\ Startable(c)
  /\ kcall' = [kcall EXCEPT ![c] =
                 Settled("rotateEncryptionKey", NoSeed, "none", FALSE)]
  /\ cachedSeed' = NoSeed
  /\ cacheExpiry' = 0
  /\ UNCHANGED <<store, txs, masterSeed, pc, locals, err, history,
                 kmsProvider, regen, klog, rng, later, envSeed,
                 payment_index, encryptedSeed, now, fetchedAt, loadedAt>>
\* AWSKMSProvider.rotateEncryptionKey (lines 114-121): two lines are logged
RotateEncryptionKey(c) ==
  /\ Aws
  /\ Startable(c)
  /\ kcall' = [kcall EXCEPT ![c] =
                 Settled("rotateEncryptionKey", NoSeed, "none", FALSE)]
  /\ UNCHANGED <<store, txs, masterSeed, pc, locals, err, history,
                 kmsProvider, regen, klog, rng, later, awsProvider,
                 payment_index, now, fetchedAt, loadedAt>>

HealthCheckError == "health check failed"
\* what healthCheck returns
True == "true"
False == "false"

\* the DescribeKeyCommand was sent and how it was answered; the provider of
\* a seed string sends nothing
Probed(call, ok) ==
  IF Aws THEN [call EXCEPT !.sent = TRUE,
                           !.kms = IF ok THEN "ok" ELSE "failed"]
         ELSE call

\* variant: the failure of the probe reaches the caller
HealthCheckThrows(c, ok) ==
  /\ Startable(c)
  /\ kcall' = [kcall EXCEPT ![c] = Probed(
                 IF ~Aws \/ ok
                   THEN Settled("healthCheck", True, "none", FALSE)
                   ELSE Settled("healthCheck", NoSeed, HealthCheckError,
                                FALSE), ok)]
  /\ UNCHANGED <<store, txs, masterSeed, pc, locals, err, history,
                 kmsProvider, regen, klog, rng, later, awsProvider,
                 payment_index, now, fetchedAt, loadedAt>>
\* healthCheck: of the AWS provider (lines 191-203), true when the
\* DescribeKeyCommand succeeds and false when it throws; of the provider of
\* a seed string (HDWalletService.ts line 36), true
HealthCheck(c, ok) ==
  /\ Startable(c)
  /\ kcall' = [kcall EXCEPT ![c] = Probed(
                 Settled("healthCheck",
                         IF ~Aws \/ ok THEN True ELSE False, "none", FALSE),
                 ok)]
  /\ UNCHANGED <<store, txs, masterSeed, pc, locals, err, history,
                 kmsProvider, regen, klog, rng, later, awsProvider,
                 payment_index, now, fetchedAt, loadedAt>>

NextKms ==
  \/ Tick
  \/ \E c \in Calls : ProviderGetMasterSeed(c)
  \/ \E c \in Calls : ServiceGetMasterSeed(c)
  \/ \E c \in Calls, ok \in BOOLEAN : Respond(c, ok)
  \/ \E c \in Calls : RotateEncryptionKey(c)
  \/ \E c \in Calls, ok \in BOOLEAN : HealthCheck(c, ok)

SpecKms == InitKms /\ [][NextKms]_vars

\* ---- storeMasterSeed ----------------------------------------------------

StoreFailedError == "Failed to store master seed in KMS"

\* storeMasterSeed(seed): of the AWS provider (lines 85-108), the KMS
\* encrypts the seed and the result is kept in this.encryptedSeed, or the
\* call fails; of the provider of a seed string (HDWalletService.ts line 35),
\* nothing is done
StoreMasterSeed(c, seed, ok) ==
  /\ Startable(c)
  /\ IF Aws /\ ~ok
       THEN /\ kcall' = [kcall EXCEPT ![c] =
                   [Settled("storeMasterSeed", NoSeed, StoreFailedError,
                            FALSE) EXCEPT !.sent = TRUE, !.kms = "failed"]]
            /\ UNCHANGED <<encryptedSeed, stored>>
       ELSE /\ kcall' = [kcall EXCEPT ![c] =
                   [Settled("storeMasterSeed", NoSeed, "none", FALSE)
                      EXCEPT !.sent = Aws,
                             !.kms = IF Aws THEN "ok" ELSE "none"]]
            /\ encryptedSeed' = IF Aws THEN WrapSeed(seed) ELSE encryptedSeed
            /\ stored' = seed
  /\ UNCHANGED <<store, txs, masterSeed, pc, locals, err, history,
                 kmsProvider, regen, klog, rng, payment_index, envSeed,
                 cachedSeed, cacheExpiry, now, fetchedAt, loadedAt, retried,
                 hook>>

NextStore ==
  \/ Tick
  \/ \E c \in Calls : ProviderGetMasterSeed(c)
  \/ \E c \in Calls, ok \in BOOLEAN : Respond(c, ok)
  \/ \E c \in Calls, seed \in {Seed, HexSeedLower}, ok \in BOOLEAN :
       StoreMasterSeed(c, seed, ok)

SpecStore == InitKms /\ [][NextStore]_vars

\* ---- the caller's retry ------------------------------------------------

\* the caller of a derivePaymentAddress call that was rejected on the unique
\* merchantId (the create of line 139) calls it again with the same
\* arguments, once
Retry(c) ==
  /\ pc[c] = "failed"
  /\ err[c] = "unique"
  /\ ~retried[c]
  /\ retried' = [retried EXCEPT ![c] = TRUE]
  /\ pc' = [pc EXCEPT ![c] = "findUnique"]
  /\ phase' = [phase EXCEPT ![c] = 1]
  /\ existing' = [existing EXCEPT ![c] = <<NoIndex, NoIndex>>]
  /\ assignedIndex' = [assignedIndex EXCEPT ![c] = NoIndex]
  /\ err' = [err EXCEPT ![c] = "none"]
  /\ hadMapping' = [hadMapping EXCEPT ![c] =
                      merchant_index[merchantId[c]] # NoIndex]
  /\ UNCHANGED <<store, txs, masterSeed, merchantId, merchantIndex, ensured,
                 paymentIndex, result, seenMax, gIncs, pIncs, kmsProvider,
                 regen, klog, rng, payment_index, awsProvider, timing,
                 stored, hook>>

\* a service built from a seed string over a store that answers: calls are
\* rejected on the unique merchantId only
InitRetry == Init /\ masterSeed = Seed

NextRetry ==
  \E c \in Calls :
    \/ \E m \in MerchantIds, p \in PaymentIds : Invoke(c, m, p)
    \/ FindUnique(c)
    \/ Upsert(c)
    \/ CounterUpdate(c)
    \/ MerchantCreate(c)
    \/ Commit(c)
    \/ PaymentUpdate(c)
    \/ Derive(c)
    \/ Retry(c)

SpecRetry == InitRetry /\ [][NextRetry]_vars

\* ---- the read side over a populated store ------------------------------

\* a service over a store in which merchant 1 has index 0 and two addresses
\* and the Payment row "pay_1" carries index 1
InitRead ==
  /\ NoAllocationCalls
  /\ next_merchant_index = 1
  /\ merchant_index = [m \in MerchantIds |-> IF m = 1 THEN 0 ELSE NoIndex]
  /\ payment_counter = [m \in MerchantIds |-> IF m = 1 THEN 2 ELSE 0]
  /\ payment_index = [p \in PaymentIds |-> IF p = "pay_1" THEN 1 ELSE NoRow]
  /\ kmsProvider \in [kind : ProviderKinds, seed : {Seed}]
  /\ masterSeed = IF kmsProvider.kind = "direct" THEN Seed ELSE NoSeed
  /\ klog = <<>>
  /\ rng = 0
  /\ envSeed = WrappedSeed
  /\ encryptedSeed = NoSeed
  /\ cachedSeed = NoSeed
  /\ cacheExpiry = 0
  /\ now = 0
  /\ kcall = [c \in Calls |-> IdleCall]
  /\ fetchedAt = NoTime
  /\ loadedAt = NoTime
  /\ Untouched

\* index pairs and paths a caller passes: one that derives, one that is
\* rejected
ReadPairs == {<<Whole(0), Whole(1)>>, <<Whole(-1), Whole(0)>>}
ReadPaths == {JoinPath(<<Hard(44), Hard(148), Hard(0), Hard(1)>>),
              JoinPath(<<Hard(44), Hard(148), Hard(0), Soft(1)>>)}

NextRead ==
  \/ \E xy \in ReadPairs, avail \in BOOLEAN :
       RegenerateKeypairNumbers(xy[1], xy[2], avail)
  \/ \E m \in MerchantIds, avail \in BOOLEAN :
       RegenerateKeypairById(m, "pay_1", avail)
  \/ \E path \in ReadPaths : RegenerateKeypairFromPath(path)
  \/ \E xy \in ReadPairs, avail \in BOOLEAN :
       VerifyAddressNumbers(xy[1], xy[2], SomeKey, avail)
  \/ \E up \in BOOLEAN : EncryptKeyData(0, 1, up)
  \/ \E i \in 1..Len(klog), edit \in {"none", "corruptTag"}, up \in BOOLEAN :
       Produced(i) /\ DecryptKeyData(Edited(klog[i].out.blob, edit), up)

SpecRead == InitRead /\ [][NextRead]_vars

\* ---- usePaymentStatus (part_002) ----------------------------------------
\* One step of the model is one task of the browser's event loop: a callback
\* of a timer, of an EventSource or of a settled fetch, together with the
\* render its state updates cause and the effects of that render.

service == <<store, txs, masterSeed, pc, locals, err, history, kmsProvider,
             regen, klog, rng, payment_index, awsProvider, timing, stored,
             retried>>

\* the refs, what they may refer to, and the state startPolling sets
Transports ==
  [eventSourceRef |-> eventSourceRef, pollingRef |-> pollingRef,
   hasCleanup |-> hasCleanup, sources |-> sources, intervals |-> intervals,
   connectionType |-> connectionType]

SetTransports(t) ==
  /\ eventSourceRef' = t.eventSourceRef
  /\ pollingRef' = t.pollingRef
  /\ hasCleanup' = t.hasCleanup
  /\ sources' = t.sources
  /\ intervals' = t.intervals
  /\ connectionType' = t.connectionType

\* what tells a new object from those of S
NewKey(S) == CHOOSE k \in 1..(Cardinality(S) + 1) : \A x \in S : x.key # k

\* the updater of setPayment (lines 36-42 and 81-87); data is the status
\* received and the payment it was asked for
Merge(prev, data) ==
  IF prev = NoPayment THEN prev
  ELSE IF prev.status # data.status
    THEN [prev EXCEPT !.status = data.status, !.statusOf = data.id]
    ELSE prev

\* startPolling (lines 49-53) of the render for payment id
StartPolling(t, id, why) ==
  IF t.pollingRef # NoInterval THEN t
  ELSE LET iv == [id |-> id, key |-> NewKey(t.intervals), why |-> why]
       IN [t EXCEPT !.connectionType = "polling",
                    !.pollingRef = iv,
                    !.intervals = @ \cup {iv}]

\* stopPolling (lines 56-61)
StopPolling(t) ==
  IF t.pollingRef # NoInterval
    THEN [t EXCEPT !.intervals = @ \ {t.pollingRef},
                   !.pollingRef = NoInterval]
    ELSE t

\* es.close(); eventSourceRef.current = null (lines 91-92 and 101-102)
CloseSource(t, es) ==
  [t EXCEPT !.sources = @ \ {es}, !.eventSourceRef = NoSource]

\* connectSSE (lines 64-109) of the render for payment id; throws: the
\* EventSource constructor throws
ConnectSSE(t, id, throws) ==
  IF ~hasEventSource THEN StartPolling(t, id, "unavailable")
  ELSE IF throws THEN StartPolling(t, id, "throws")
  ELSE LET es == [id |-> id, key |-> NewKey(t.sources)]
       IN [t EXCEPT !.eventSourceRef = es, !.sources = @ \cup {es}]

\* the cleanup of the transport effect (lines 169-177)
CleanUp(t) ==
  StopPolling(IF t.eventSourceRef # NoSource
                THEN CloseSource(t, t.eventSourceRef)
                ELSE t)

\* the transport effect (lines 158-178) of a render with the given loading,
\* payment and paymentId: the cleanup the last run returned, then the body
TransportEffect(t, ld, pay, id, throws) ==
  LET clean == IF t.hasCleanup THEN CleanUp(t) ELSE t
  IN IF ld \/ pay = NoPayment \/ pay.status \in Terminal
       THEN [clean EXCEPT !.hasCleanup = FALSE]
       ELSE [ConnectSSE(clean, id, throws) EXCEPT !.hasCleanup = TRUE]

\* the render after a state update, and the effects whose dependencies
\* (line 178) changed; no render of an unmounted component
Render(t, ld, pay, throws) ==
  IF mounted /\ (ld # loading \/ pay.status # payment.status)
    THEN TransportEffect(t, ld, pay, paymentId, throws)
    ELSE t

\* the state after the first render of a component and its effects: the
\* initial fetch is sent (lines 112-150), the transport effect returned at
\* line 159
InitHook ==
  /\ NoAllocationCalls
  /\ next_merchant_index = NoIndex
  /\ merchant_index = [m \in MerchantIds |-> NoIndex]
  /\ payment_counter = [m \in MerchantIds |-> 0]
  /\ kmsProvider = [kind |-> "direct", seed |-> Seed]
  /\ masterSeed = Seed
  /\ klog = <<>>
  /\ rng = 0
  /\ payment_index = [p \in PaymentIds |-> NoRow]
  /\ envSeed = WrappedSeed
  /\ encryptedSeed = NoSeed
  /\ cachedSeed = NoSeed
  /\ cacheExpiry = 0
  /\ now = 0
  /\ kcall = [c \in Calls |-> IdleCall]
  /\ fetchedAt = NoTime
  /\ loadedAt = NoTime
  /\ stored = NoSeed
  /\ retried = [c \in Calls |-> FALSE]
  /\ paymentId = "pay_1"
  /\ mounted = TRUE
  /\ payment = NoPayment
  /\ loading = TRUE
  /\ error = "none"
  /\ connectionType = "none"
  /\ eventSourceRef = NoSource
  /\ pollingRef = NoInterval
  /\ hasCleanup = FALSE
  /\ hasEventSource \in BOOLEAN
  /\ sources = {}
  /\ intervals = {}
  /\ fetches = {[id |-> "pay_1", isMounted |-> TRUE]}
  /\ polls = {}
  /\ status = [p \in PaymentIds |-> "pending"]

\* the server moves a payment on; a terminal status is final
Advance(id, st) ==
  /\ status[id] \notin Terminal
  /\ st \notin {"pending", status[id]}
  /\ status' = [status EXCEPT ![id] = st]
  /\ UNCHANGED <<state, transports, hasEventSource, fetches, polls, service>>

\* the error of a response that is not ok, or of a fetch that threw
\* (lines 121-126 and 145)
FetchError(res) ==
  CASE res = "ok" -> "none"
    [] res = "notFound" -> "Payment not found"
    [] res = "failed" -> "Failed to fetch payment details"
    [] OTHER -> "An error occurred"

\* the response to an initial fetch arrives (lines 117-147): nothing is done
\* when the effect that sent it was cleaned up
FetchResponse(f, res, throws) ==
  /\ f \in fetches
  /\ fetches' = fetches \ {f}
  /\ IF ~f.isMounted
       THEN UNCHANGED <<payment, loading, error, connectionType, transports>>
       ELSE LET data == [id |-> f.id, status |-> status[f.id],
                         statusOf |-> f.id]
                pay == IF res = "ok" THEN data ELSE payment
            IN /\ payment' = pay
               /\ error' = FetchError(res)
               /\ loading' = FALSE
               /\ SetTransports(Render(Transports, FALSE, pay, throws))
  /\ UNCHANGED <<paymentId, mounted, hasEventSource, polls, status, service>>

\* the parent renders the component with another paymentId: the cleanups of
\* both effects run (lines 152-154 and 169-177), then both effects
ChangePaymentId(id, throws) ==
  /\ mounted
  /\ id # paymentId
  /\ paymentId' = id
  /\ fetches' = {[f EXCEPT !.isMounted = FALSE] : f \in fetches}
                  \cup {[id |-> id, isMounted |-> TRUE]}
  /\ SetTransports(TransportEffect(Transports, loading, payment, id, throws))
  /\ UNCHANGED <<mounted, payment, loading, error, hasEventSource, polls,
                 status, service>>

\* the component unmounts: the cleanups of both effects run
Unmount ==
  /\ mounted
  /\ mounted' = FALSE
  /\ fetches' = {[f EXCEPT !.isMounted = FALSE] : f \in fetches}
  /\ SetTransports([(IF hasCleanup THEN CleanUp(Transports) ELSE Transports)
                      EXCEPT !.hasCleanup = FALSE])
  /\ UNCHANGED <<paymentId, payment, loading, error, hasEventSource, polls,
                 status, service>>

\* es.onopen (lines 74-76)
EsOpen(es) ==
  /\ es \in sources
  /\ mounted
  /\ connectionType' = "sse"
  /\ UNCHANGED <<paymentId, mounted, payment, loading, error, transports,
                 hasEventSource, fetches, polls, status, service>>

\* es.onmessage (lines 78-97) with the server's status of the payment of the
\* stream
EsMessage(es, throws) ==
  /\ es \in sources
  /\ LET data == [id |-> es.id, status |-> status[es.id]]
         pay == IF mounted THEN Merge(payment, data) ELSE payment
         closed == IF data.status \in Terminal
                     THEN CloseSource(Transports, es)
                     ELSE Transports
     IN /\ payment' = pay
        /\ SetTransports(Render(closed, loading, pay, throws))
  /\ UNCHANGED <<paymentId, mounted, loading, error, hasEventSource, fetches,
                 polls, status, service>>

\* variant: the connection that reported an error is left open
EsErrorKeepsOpen(es) ==
  /\ es \in sources
  /\ SetTransports(StartPolling([Transports EXCEPT
                                   !.eventSourceRef = NoSource],
                                es.id, "error"))
  /\ UNCHANGED <<paymentId, mounted, payment, loading, error, hasEventSource,
                 fetches, polls, status, service>>

\* es.onerror (lines 99-104)
EsError(es) ==
  /\ es \in sources
  /\ SetTransports(StartPolling(CloseSource(Transports, es), es.id, "error"))
  /\ UNCHANGED <<paymentId, mounted, payment, loading, error, hasEventSource,
                 fetches, polls, status, service>>

\* the timer of an interval fires: pollStatus sends its fetch (line 31); the
\* server reads the status when the request arrives.  At most MaxPolls
\* responses are awaited at a time
IntervalTick(iv) ==
  /\ iv \in intervals
  /\ Cardinality(polls) < MaxPolls
  /\ polls' = polls \cup {[id |-> iv.id, status |-> status[iv.id]]}
  /\ UNCHANGED <<state, transports, hasEventSource, fetches, status, service>>

\* the response to a pollStatus fetch arrives (lines 32-42)
PollResponse(r, ok, throws) ==
  /\ r \in polls
  /\ polls' = polls \ {r}
  /\ LET pay == IF ok /\ mounted THEN Merge(payment, r) ELSE payment
     IN /\ payment' = pay
        /\ SetTransports(Render(Transports, loading, pay, throws))
  /\ UNCHANGED <<paymentId, mounted, loading, error, hasEventSource, fetches,
                 status, service>>

NextHook ==
  \/ \E id \in PaymentIds, st \in Statuses : Advance(id, st)
  \/ \E f \in fetches, res \in {"ok", "notFound", "failed", "threw"},
        throws \in BOOLEAN : FetchResponse(f, res, throws)
  \/ \E id \in PaymentIds, throws \in BOOLEAN : ChangePaymentId(id, throws)
  \/ Unmount
  \/ \E es \in sources : EsOpen(es)
  \/ \E es \in sources, throws \in BOOLEAN : EsMessage(es, throws)
  \/ \E es \in sources : EsError(es)
  \/ \E iv \in intervals : IntervalTick(iv)
  \/ \E r \in polls, ok \in BOOLEAN, throws \in BOOLEAN :
       PollResponse(r, ok, throws)

SpecHook == InitHook /\ [][NextHook]_vars

\* ---- properties --------------------------------------------------------

Mapped(m) == merchant_index[m] # NoIndex

\* the first lookup of call c ran and found no mapping for its merchant
FirstTime(c) ==
  /\ pc[c] # "idle"
  /\ ~(pc[c] = "findUnique" /\ phase[c] = 1)
  /\ existing[c][1] = NoIndex

\* C1: in every state of the store, two distinct merchants that both have a
\* mapping have different merchant_index values.
C1_DistinctMerchantsDistinctIndex ==
  \A m1, m2 \in MerchantIds :
    (m1 # m2 /\ Mapped(m1) /\ Mapped(m2))
      => merchant_index[m1] # merchant_index[m2]

\* two calls for different merchants, both in flight, have both been given
\* their merchant index
C1_Witness ==
  \E c1, c2 \in Calls :
    /\ merchantId[c1] # merchantId[c2]
    /\ pc[c1] = "findUnique" /\ phase[c1] = 2 /\ ~hadMapping[c1]
    /\ pc[c2] = "findUnique" /\ phase[c2] = 2 /\ ~hadMapping[c2]
    /\ Mapped(merchantId[c1]) /\ Mapped(merchantId[c2])

\* C2: of two concurrent first-time getMerchantIndex calls for the same
\* merchant, the one that loses the race does not fail: once the store let it
\* finish, it has returned the index of the mapping the winner created.
C2_LoserReturnsWinnersIndex ==
  \A c1, c2 \in Calls :
    (/\ c1 # c2
     /\ merchantId[c1] = merchantId[c2]
     /\ FirstTime(c1) /\ FirstTime(c2)
     /\ merchantIndex[c1] # NoIndex
     /\ err[c2] # "store"
     /\ ~(phase[c2] = 1 /\ pc[c2] \in GmiSteps))
      => merchantIndex[c2] = merchantIndex[c1]

\* C3: no two completed getNextPaymentIndex calls for one merchant return the
\* same paymentIndex.
C3_PaymentIndexUnique ==
  \A c1, c2 \in Calls :
    (/\ c1 # c2
     /\ merchantId[c1] = merchantId[c2]
     /\ paymentIndex[c1] # NoIndex /\ paymentIndex[c2] # NoIndex)
      => paymentIndex[c1] # paymentIndex[c2]

\* two overlapping calls for one merchant both hold a payment index
C3_Witness ==
  \E c1, c2 \in Calls :
    /\ c1 # c2
    /\ merchantId[c1] = merchantId[c2]
    /\ pc[c1] = "derive" /\ pc[c2] = "derive"

\* C4: no two completed derivePaymentAddress calls return the same
\* (merchantIndex, paymentIndex) pair, the same path or the same publicKey.
C4_NoAddressReuse ==
  \A c1, c2 \in Calls :
    (c1 # c2 /\ pc[c1] = "done" /\ pc[c2] = "done")
      => /\ <<result[c1].merchantIndex, result[c1].paymentIndex>>
              # <<result[c2].merchantIndex, result[c2].paymentIndex>>
         /\ result[c1].derivationPath # result[c2].derivationPath
         /\ result[c1].publicKey # result[c2].publicKey

\* two completed calls for the same merchant
C4_Witness ==
  \E c1, c2 \in Calls :
    /\ c1 # c2
    /\ pc[c1] = "done" /\ pc[c2] = "done"
    /\ merchantId[c1] = merchantId[c2]
    /\ result[c1].merchantIndex = result[c2].merchantIndex

\* values returned so far by the getMerchantIndex calls made by call c
GmiReturns(c) == {merchantIndex[c], ensured[c]} \ {NoIndex}

\* C5: getMerchantIndex is idempotent: all values returned for one merchant
\* are equal, and a getMerchantIndex call made after a mapping was returned
\* changes neither the global counter nor any mapping.
C5_Idempotent ==
  /\ [](\A c1, c2 \in Calls :
          merchantId[c1] = merchantId[c2]
            => \A v1 \in GmiReturns(c1), v2 \in GmiReturns(c2) : v1 = v2)
  /\ [][\A c \in Calls :
          (/\ pc[c] \in GmiSteps
           /\ pc'[c] # pc[c]
           /\ (phase[c] = 2 \/ hadMapping[c]))
            => UNCHANGED <<next_merchant_index, merchant_index>>]_vars

\* the second getMerchantIndex call of a derivation (for the second merchant)
\* has returned
C5_Witness ==
  \E c \in Calls :
    /\ ensured[c] # NoIndex
    /\ ensured[c] = merchantIndex[c]
    /\ ensured[c] > 0

\* C6: a stored merchant_index never changes and its mapping is never
\* removed.
C6_MerchantIndexImmutable ==
  [][\A m \in MerchantIds :
       Mapped(m) => merchant_index'[m] = merchant_index[m]]_vars

\* a second creation for a mapped merchant was attempted and rejected
C6_Witness ==
  \E c \in Calls :
    /\ pc[c] = "failed" /\ err[c] = "unique"
    /\ Mapped(merchantId[c])
    /\ merchant_index[merchantId[c]] # assignedIndex[c]

\* C7: getNextPaymentIndex returns the pre-increment counter value: the values
\* returned for a merchant are 0, 1, ... without gap, and a call returns a
\* value greater than every value returned before it was made.
C7_PreIncrementIncreasing ==
  /\ [](/\ \A m \in MerchantIds :
             ReturnedPaymentIndices(m) = 0..(payment_counter[m] - 1)
        /\ \A c \in Calls :
             paymentIndex[c] # NoIndex => paymentIndex[c] > seenMax[c])
  /\ [][\A c \in Calls :
          (paymentIndex[c] = NoIndex /\ paymentIndex'[c] # NoIndex)
            => /\ paymentIndex'[c] = payment_counter[merchantId[c]]
               /\ payment_counter'[merchantId[c]]
                    = payment_counter[merchantId[c]] + 1]_vars

\* a call returned 0 and a later, non-overlapping call returned 1
C7_Witness ==
  \E c1, c2 \in Calls :
    /\ merchantId[c1] = merchantId[c2]
    /\ paymentIndex[c1] = 0 /\ seenMax[c1] = NoIndex
    /\ paymentIndex[c2] = 1 /\ seenMax[c2] = 0

CounterValue == IF next_merchant_index = NoIndex THEN 0 ELSE next_merchant_index

\* C8: the assigned merchant_index values are exactly 0 .. counter - 1, and
\* the counter equals the number of merchants that have a mapping.
C8_DenseMerchantIndices ==
  /\ {merchant_index[m] : m \in {x \in MerchantIds : Mapped(x)}}
       = 0..(CounterValue - 1)
  /\ Cardinality({m \in MerchantIds : Mapped(m)}) = CounterValue

\* one merchant is mapped and an attempt that had incremented the counter
\* was rolled back
C8_Witness ==
  /\ next_merchant_index = 1
  /\ \E c \in Calls :
       pc[c] = "failed" /\ err[c] = "unique" /\ assignedIndex[c] = 1

\* C9: allocation is all-or-nothing: a step changes the committed counter
\* exactly when it adds one mapping, which holds the pre-increment value.
C9_AllOrNothing ==
  [][(CounterValue' # CounterValue \/ merchant_index' # merchant_index)
       => /\ CounterValue' = CounterValue + 1
          /\ \E m \in MerchantIds :
               /\ ~Mapped(m)
               /\ merchant_index' =
                    [merchant_index EXCEPT ![m] = CounterValue]]_vars

\* the store failed after a transaction had incremented the counter, and
\* neither the increment nor a mapping was committed
C9_Witness ==
  \E c \in Calls :
    /\ pc[c] = "failed" /\ err[c] = "store"
    /\ assignedIndex[c] # NoIndex
    /\ ~Mapped(merchantId[c])
    /\ CounterValue = Cardinality({m \in MerchantIds : Mapped(m)})

\* a step of call c leaves the rows of the other merchants alone
FrameOfCall(c) ==
  pc'[c] # pc[c]
    => \A m \in MerchantIds \ {merchantId'[c]} :
         /\ payment_counter'[m] = payment_counter[m]
         /\ merchant_index'[m] = merchant_index[m]

\* C10 as stated: a completed derivePaymentAddress increased its merchant's
\* payment_counter by 1 and increased the global counter by 1 if and only if
\* the merchant had no mapping before the call.
C10_Original ==
  \A c \in Calls :
    pc[c] = "done"
      => /\ pIncs[c] = 1
         /\ (gIncs[c] = 1 <=> ~hadMapping[c])
         /\ (gIncs[c] = 0 <=> hadMapping[c])

\* C10 amended: a completed derivePaymentAddress increased its merchant's
\* payment_counter by 1, touched no other merchant's row, and increased the
\* global counter by 1 if and only if its own first lookup found no mapping.
C10_ConsumesOneSlot ==
  /\ [](\A c \in Calls :
          pc[c] = "done"
            => /\ pIncs[c] = 1
               /\ gIncs[c] = IF existing[c][1] = NoIndex THEN 1 ELSE 0)
  /\ [][\A c \in Calls : FrameOfCall(c)]_vars

\* a call that created its merchant's mapping and one that found it have
\* both completed
C10_Witness ==
  \E c1, c2 \in Calls :
    /\ pc[c1] = "done" /\ gIncs[c1] = 1 /\ pIncs[c1] = 1
    /\ pc[c2] = "done" /\ gIncs[c2] = 0 /\ pIncs[c2] = 1
    /\ ~hadMapping[c2]

\* C11: under SpecRoundTrip, regenerateKeypairFromPath on the path a
\* derivePaymentAddress call returned gives, whatever the other calls did in
\* between, a keypair whose public key is the returned one; and the returned
\* path is exactly m/44'/148'/<merchantIndex>'/<paymentIndex>'.
C11_PathRoundTrip ==
  /\ \A c \in Calls :
       regen[c] # NoKeypair
         => /\ regen[c].error = "none"
            /\ regen[c].publicKey = result[c].publicKey
  /\ \A c \in Calls :
       pc[c] = "done"
         => result[c].derivationPath =
              PathText(result[c].merchantIndex, result[c].paymentIndex)

\* the path of the merchant's first address was regenerated while another
\* call has been given the merchant's second address
C11_Witness ==
  \E c1, c2 \in Calls :
    /\ c1 # c2
    /\ regen[c1] # NoKeypair
    /\ regen[c1].publicKey = result[c1].publicKey
    /\ result[c1].paymentIndex = 0
    /\ pc[c2] = "done"
    /\ result[c2].merchantIndex = result[c1].merchantIndex
    /\ result[c2].paymentIndex = 1
    /\ regen[c2] = NoKeypair

\* a recorded operation returned a value
Returns(e) == e.out.error = "none"

C13_NumericEqualsPath ==
  \A i, j \in 1..Len(klog) :
    (/\ klog[i].op = "regenerateKeypair"
     /\ klog[j].op = "regenerateKeypairFromPath"
     /\ Returns(klog[i]) /\ Returns(klog[j])
     /\ klog[j].in = PathText(klog[i].in[1], klog[i].in[2]))
      => klog[i].out = klog[j].out

\* both forms were called for merchant index 0 and the largest payment index
C13_Witness ==
  \E i, j \in 1..Len(klog) :
    /\ klog[i].op = "regenerateKeypair"
    /\ klog[i].in = <<0, LargestIndex>>
    /\ klog[j].op = "regenerateKeypairFromPath"
    /\ klog[j].in = PathText(0, LargestIndex)
    /\ Returns(klog[i]) /\ Returns(klog[j])
    /\ klog[i].out.secretKey = klog[j].out.secretKey

\* C14: under SpecDerive, a verifyAddress(m, p, k) call that reached the seed
\* raises no error and returns true exactly when k is the public key of path
\* m/44'/148'/<m>'/<p>' under the service's seed.
C14_VerifyExact ==
  \A i \in 1..Len(klog) :
    (klog[i].op = "verifyAddress" /\ klog[i].out.error # "seed unavailable")
      => /\ klog[i].out.error = "none"
         /\ klog[i].out.value =
              (klog[i].in[3] =
                 KeypairFromPath(kmsProvider.seed,
                                 PathText(klog[i].in[1],
                                          klog[i].in[2])).publicKey)

\* for the same indices the right key was accepted and the key of another
\* payment index was refused
C14_Witness ==
  \E i, j \in 1..Len(klog) :
    /\ klog[i].op = "verifyAddress" /\ klog[j].op = "verifyAddress"
    /\ Returns(klog[i]) /\ Returns(klog[j])
    /\ klog[i].in[1] = klog[j].in[1] /\ klog[i].in[2] = klog[j].in[2]
    /\ klog[i].out.value = TRUE
    /\ klog[j].out.value = FALSE

\* entry j records decryptKeyData, with the backend answering, of the very
\* blob entry i returned
DecryptsBlobOf(j, i) ==
  /\ Produced(i)
  /\ j \in (i + 1)..Len(klog)
  /\ klog[j].op = "decryptKeyData"
  /\ klog[j].up
  /\ klog[j].in = klog[i].out.blob

\* C15: under SpecCodec, decryptKeyData of a blob that encryptKeyData(m, p)
\* returned on the same service returns exactly
\* {merchantIndex: m, paymentIndex: p}.
C15_CodecRoundTrip ==
  \A i, j \in 1..Len(klog) :
    DecryptsBlobOf(j, i)
      => klog[j].out = [error |-> "none",
                        merchantIndex |-> klog[i].in[1],
                        paymentIndex |-> klog[i].in[2]]

\* C16: under SpecCodec, no two encryptKeyData calls have returned the same
\* blob, in particular not two calls on the same (m, p).
C16_FreshBlobs ==
  \A i, j \in 1..Len(klog) :
    (Produced(i) /\ Produced(j) /\ i # j)
      => klog[i].out.blob # klog[j].out.blob

\* encryptKeyData returned twice for the same pair of indices
C16_Witness ==
  \E i, j \in 1..Len(klog) :
    /\ i < j
    /\ Produced(i) /\ Produced(j)
    /\ klog[i].in = <<LargestIndex, 0>>
    /\ klog[j].in = klog[i].in

\* C17: under SpecCodec, decryptKeyData of a blob that is not, character for
\* character, a blob encryptKeyData returned fails: it returns no index
\* pair.
C17_TamperFails ==
  \A j \in 1..Len(klog) :
    (/\ klog[j].op = "decryptKeyData"
     /\ \A i \in 1..Len(klog) :
          Produced(i) => klog[j].in # klog[i].out.blob)
      => klog[j].out.error # "none"

\* the delimiter and the number of fields of the service's blob format
Delimiter == IF kmsProvider.kind = "aws" THEN Bar ELSE Colon

ExpectedFields == IF kmsProvider.kind = "aws" THEN 4 ELSE 3

\* C18: under SpecCodec, decryptKeyData of a blob with too few or too many
\* delimiter-separated fields (3 expected by the local variant, 4 by the AWS
\* KMS envelope) fails and returns no decryption result.
C18_FieldCountChecked ==
  \A j \in 1..Len(klog) :
    (/\ klog[j].op = "decryptKeyData"
     /\ Len(Split(klog[j].in, Delimiter)) # ExpectedFields)
      => klog[j].out.error \in {FormatError, AwsDecryptError}

\* C19: under SpecCodec, encryptKeyData and decryptKeyData go through the
\* provider's encrypt / decrypt exactly when the provider has them, take the
\* local fallback exactly when it lacks them, and with the AWS KMS provider
\* never work with the local key.
C19_ProviderPreferred ==
  \A i \in 1..Len(klog) :
    /\ klog[i].via = "provider" <=> kmsProvider.kind \in {"direct", "aws"}
    /\ klog[i].via = "fallback" <=> kmsProvider.kind = "plain"
    /\ kmsProvider.kind = "aws" => klog[i].key = <<"kms", KeyId>>

\* on a service over the AWS KMS provider a pair was encrypted and the blob
\* decrypted, both through the provider
C19_Witness ==
  /\ kmsProvider.kind = "aws"
  /\ \E i, j \in 1..Len(klog) :
       /\ DecryptsBlobOf(j, i)
       /\ klog[i].via = "provider" /\ klog[j].via = "provider"
       /\ klog[j].out.error = "none"

\* C20: under SpecCodec, every call that takes the local fallback works with
\* the key derived from the master seed, whether the seed was already held
\* or not; so a blob encrypted before the seed was loaded is decrypted to the
\* same pair after it was loaded, and the other way round.
C20_KeyFromMasterSeed ==
  /\ \A i \in 1..Len(klog) :
       klog[i].via = "fallback"
         => klog[i].key = <<"sha256", kmsProvider.seed, ":hd-key-data">>
  /\ \A i, j \in 1..Len(klog) :
       (DecryptsBlobOf(j, i) /\ klog[i].via = "fallback")
         => /\ klog[j].out.merchantIndex = klog[i].in[1]
            /\ klog[j].out.paymentIndex = klog[i].in[2]

\* the text has the exact form m/44'/148'/N'/M', N and M runs of digits
WellFormedPath(path) ==
  LET parts == Split(path, "/")
  IN /\ Len(parts) = 5
     /\ parts[1] = <<"m">>
     /\ parts[2] = Hard(BIP44_PURPOSE)
     /\ parts[3] = Hard(STELLAR_COIN_TYPE)
     /\ IsSegment(parts[4])
     /\ IsSegment(parts[5])

\* C21: under SpecInputs, regenerateKeypairFromPath that was given a string
\* not of the exact form m/44'/148'/N'/M' fails with the invalid-path error;
\* it returns a keypair only for strings of that form.
C21_PathValidated ==
  \A i \in 1..Len(klog) :
    (/\ klog[i].op = "regenerateKeypairFromPath"
     /\ klog[i].out.error # SeedError
     /\ ~WellFormedPath(klog[i].in))
      => klog[i].out.error = InvalidPathError

\* entry i records a call with numeric indices of which one is outside
\* [0, 2^31)
OutOfRangeCall(i) ==
  /\ klog[i].op \in {"regenerateKeypair", "verifyAddress"}
  /\ ~InRange(klog[i].in[1]) \/ ~InRange(klog[i].in[2])

\* the number is a non-negative integer
NonNegativeInteger(x) == x.n >= 0 /\ ~x.half

C23_LookupOrNotFound ==
  \A i \in 1..Len(klog) :
    klog[i].op = "regenerateKeypairById"
      => LET m == klog[i].in[1]
             p == klog[i].in[2]
         IN IF merchant_index[m] = NoIndex
              THEN klog[i].out = Failed(NoIndexError)
            ELSE IF payment_index[p] \in {NoRow, NoIndex}
              THEN klog[i].out = Failed(NoPaymentIndexError)
              ELSE klog[i].out.error # SeedError
                     => klog[i].out =
                          KeypairFromPath(kmsProvider.seed,
                                          PathText(merchant_index[m],
                                                   payment_index[p]))

\* the keypair of merchant index 0 and the stored payment index 1 was
\* regenerated from the two identifiers
C23_Witness ==
  \E i \in 1..Len(klog) :
    /\ klog[i].op = "regenerateKeypairById"
    /\ klog[i].in = <<1, "pay_1">>
    /\ payment_index["pay_1"] = 1
    /\ klog[i].out.error = "none"
    /\ klog[i].out.secretKey =
         KeypairFromPath(kmsProvider.seed, PathText(0, 1)).secretKey

\* entry i records new HDWalletService("")
EmptySeedConstruction(i) ==
  /\ klog[i].op = "constructor"
  /\ klog[i].in.type = "string"
  /\ klog[i].in.seed = ""

\* C30: under SpecInputs, new HDWalletService("") throws "Master seed is
\* required"; right after it there is no service, in particular none over
\* the factory's provider.
C30_EmptySeedRejected ==
  /\ \A i \in 1..Len(klog) :
       EmptySeedConstruction(i) => klog[i].out.error = MissingSeedError
  /\ (Len(klog) > 0 /\ EmptySeedConstruction(Len(klog)))
       => kmsProvider = Unbuilt /\ masterSeed = NoSeed

\* the constructor was called with the empty string and threw
C30_Witness ==
  /\ Len(klog) = 1
  /\ EmptySeedConstruction(1)
  /\ klog[1].out.error = MissingSeedError
  /\ ~Built

\* ---- the seed cache ------------------------------------------------------

GetOps == {"getMasterSeed", "service.getMasterSeed"}

\* in this step caller c makes a call that settles or is sent
Calling(c, op) ==
  /\ Startable(c)
  /\ kcall'[c] # kcall[c]
  /\ kcall'[c].op = op

\* in this step a getMasterSeed call of c runs in the AWS provider
AsksProvider(c) ==
  /\ Aws
  /\ \/ Calling(c, "getMasterSeed")
     \/ Calling(c, "service.getMasterSeed") /\ ~HeldSeed

\* the last successful fetch is less than CACHE_TTL ago
Fresh == fetchedAt # NoTime /\ now < fetchedAt + CACHE_TTL

C24_Step(c) ==
  /\ (AsksProvider(c) /\ Fresh) =>
       /\ kcall'[c].pc = "done"
       /\ ~kcall'[c].sent
       /\ kcall'[c].ret = Seed
       /\ awsProvider' = awsProvider
       /\ fetchedAt' = fetchedAt
  /\ (AsksProvider(c) /\ fetchedAt # NoTime /\ ~Fresh) =>
       /\ kcall'[c].pc = "sent"
       /\ kcall'[c].sent
  /\ (kcall[c].pc = "sent" /\ kcall'[c].pc = "done") =>
       /\ fetchedAt' = now
       /\ cacheExpiry' = now + CACHE_TTL
       /\ cachedSeed' = kcall'[c].ret

\* C24: after a successful fetch at time t every getMasterSeed call of the
\* AWS provider before t + CACHE_TTL returns the cached seed and sends
\* nothing to the KMS; a call at t + CACHE_TTL or later sends again, and the
\* fetch that succeeds sets the expiry to its own time plus CACHE_TTL.
C24_CacheTtl == [][\A c \in Calls : C24_Step(c)]_vars

\* a call was served from the cache, another one fetched again after the
\* first seed had expired
C24_Witness ==
  \E c, d \in Calls :
    /\ kcall[c].op = "getMasterSeed" /\ kcall[c].pc = "done"
    /\ ~kcall[c].sent /\ Aws
    /\ kcall[d].op = "getMasterSeed" /\ kcall[d].pc = "done"
    /\ kcall[d].sent
    /\ fetchedAt >= CACHE_TTL
    /\ cacheExpiry = fetchedAt + CACHE_TTL

\* C25: no getMasterSeed call of the service returns a seed that was fetched
\* CACHE_TTL or longer ago.
C25_NeverStale ==
  \A c \in Calls :
    (kcall[c].op = "service.getMasterSeed" /\ kcall[c].pc = "done")
      => ~kcall[c].stale

\* C26: a rotateEncryptionKey call leaves the cached seed, its expiry and
\* the wrapped seed as they were, and with them what getMasterSeed returns.
C26_RotationKeepsCache ==
  [][\A c \in Calls :
       Calling(c, "rotateEncryptionKey") =>
         /\ awsProvider' = awsProvider
         /\ now' = now
         /\ CacheValid' = CacheValid
         /\ kcall'[c].pc = "done"]_vars

\* a rotation was made while the cache held an unexpired seed
C26_Witness ==
  \E c \in Calls :
    /\ kcall[c].op = "rotateEncryptionKey"
    /\ CacheValid
    /\ \E d \in Calls : kcall[d].op = "getMasterSeed" /\ ~kcall[d].sent
                        /\ kcall[d].pc = "done"

\* in this step a getMasterSeed call of c fails
Fails(c) == kcall'[c] # kcall[c] /\ kcall'[c].pc = "failed"
                                 /\ kcall'[c].op \in GetOps

C27_Step(c) ==
  /\ (AsksProvider(c) /\ ~CacheValid /\ Unconfigured) =>
       Fails(c) /\ kcall'[c].err = NotConfiguredError
  /\ (kcall[c].pc = "sent" /\ kcall'[c].kms = "failed") =>
       kcall'[c].pc = "failed" /\ kcall'[c].err = KmsFailedError
  /\ Fails(c) =>
       /\ kcall'[c].ret = NoSeed
       /\ kcall'[c].err \in {NotConfiguredError, KmsFailedError}
       /\ cachedSeed' = cachedSeed
       /\ cacheExpiry' = cacheExpiry
       /\ masterSeed' = masterSeed
  /\ (AsksProvider(c) /\ ~CacheValid /\ ~Unconfigured) =>
       kcall'[c].pc = "sent" /\ kcall'[c].sent

\* C27: a getMasterSeed call that finds no unexpired cached seed fails, and
\* returns no seed, when no wrapped seed is configured or when the KMS call
\* fails; a failure leaves the cached seed and the expiry as they were, and
\* a later call with a wrapped seed configured sends to the KMS again.
C27_FailureNotCached == [][\A c \in Calls : C27_Step(c)]_vars

\* a fetch failed after the cached seed had expired, and the expired seed
\* is still in the cache; or a call failed for want of a wrapped seed
C27_Witness ==
  \/ \E c \in Calls :
       /\ kcall[c].pc = "failed" /\ kcall[c].err = KmsFailedError
       /\ cachedSeed = Seed /\ ~CacheValid
       /\ \E d \in Calls : kcall[d].pc = "sent"
  \/ /\ \E c \in Calls :
          kcall[c].pc = "failed" /\ kcall[c].err = NotConfiguredError
     /\ now > 0

\* C28: healthCheck completes with a boolean, true when the probe succeeds
\* (or the provider is the one of a seed string) and false when it fails,
\* and leaves the provider's cache and wrapped seed as they were.
C28_HealthCheckTotal ==
  /\ [](\A c \in Calls : kcall[c].op = "healthCheck" =>
          /\ kcall[c].pc = "done"
          /\ kcall[c].err = "none"
          /\ kcall[c].ret = IF Aws /\ kcall[c].kms = "failed" THEN False
                                                             ELSE True
          /\ Aws => kcall[c].kms \in {"ok", "failed"})
  /\ [][\A c \in Calls : Calling(c, "healthCheck") =>
          awsProvider' = awsProvider /\ masterSeed' = masterSeed]_vars

\* a probe failed and a probe succeeded, with a seed in the cache
C28_Witness ==
  \E c, d \in Calls :
    /\ kcall[c].op = "healthCheck" /\ kcall[c].ret = False
    /\ kcall[d].op = "healthCheck" /\ kcall[d].ret = True
    /\ cachedSeed = Seed

\* the getMasterSeed calls that returned
SeedReturned == {c \in Calls : kcall[c].op \in GetOps /\ kcall[c].pc = "done"}

\* C29: getMasterSeed calls that overlap return the same seed, and every
\* write of the cache stores that seed with an expiry in the future.
C29_RaceHarmless ==
  /\ [](/\ \A c, d \in SeedReturned : kcall[c].ret = kcall[d].ret
        /\ \A c \in SeedReturned : kcall[c].ret # NoSeed
        /\ \A c \in SeedReturned : cachedSeed \in {NoSeed, kcall[c].ret}
        /\ masterSeed \in {NoSeed, Seed})
  /\ [][(cachedSeed' # cachedSeed \/ cacheExpiry' # cacheExpiry) =>
          /\ cachedSeed' = Seed
          /\ cacheExpiry' > now'
          /\ cacheExpiry' >= cacheExpiry]_vars

\* two calls that were awaiting the KMS together have both returned
C29_Witness ==
  \E c, d \in SeedReturned :
    /\ c # d
    /\ kcall[c].raced /\ kcall[c].sent
    /\ kcall[d].sent
    /\ kcall[c].ret = kcall[d].ret
    /\ cachedSeed = kcall[c].ret
    /\ cacheExpiry > now

\* ---- retries, abandoned allocations and the read side -------------------

\* C31: a getMerchantIndex attempt rejected on the unique merchantId is not
\* taken up again by the service, and commits nothing; the caller's retry
\* finds the winner's mapping, returns its index and advances no counter, so
\* that the global counter equals the number of mappings throughout.
C31_RetrySafe ==
  /\ [](/\ \A c \in Calls :
             retried[c] =>
               /\ hadMapping[c]
               /\ err[c] = "none"
               /\ gIncs[c] = 0
               /\ merchantIndex[c] \in {NoIndex, merchant_index[merchantId[c]]}
               /\ existing[c][1] \in {NoIndex, merchant_index[merchantId[c]]}
               /\ pc[c] # "findUnique" \/ phase[c] # 1
                    => existing[c][1] # NoIndex
        /\ Cardinality({m \in MerchantIds : Mapped(m)}) = CounterValue)
  /\ [][\A c \in Calls :
          /\ (err'[c] = "unique" /\ err[c] # "unique")
               => pc'[c] = "failed" /\ store' = store
          /\ (pc[c] = "failed" /\ pc'[c] # "failed")
               => retried'[c] /\ ~retried[c] /\ store' = store]_vars

\* the loser of a race for one merchant was rejected, its caller retried,
\* and both calls completed with the index of the one mapping
C31_Witness ==
  \E c, d \in Calls :
    /\ c # d
    /\ merchantId[c] = merchantId[d]
    /\ retried[c] /\ pc[c] = "done"
    /\ ~retried[d] /\ pc[d] = "done" /\ gIncs[d] = 1
    /\ result[c].merchantIndex = result[d].merchantIndex
    /\ CounterValue = 1

\* the seed could not be fetched for call c
Abandoned(c) == pc[c] = "failed" /\ err[c] = "seed"

\* C32: derivePaymentAddress asks for the seed only after both indices are
\* allocated; a call that fails on the seed returns nothing, leaves its
\* mapping and its payment_counter increment committed, and no other call for
\* the merchant is given its payment index.
C32_SeedAfterAllocation ==
  /\ [](\A c \in Calls :
          Abandoned(c) =>
            /\ result[c] = NoResult
            /\ merchantIndex[c] # NoIndex
            /\ merchantIndex[c] = merchant_index[merchantId[c]]
            /\ gIncs[c] = IF existing[c][1] = NoIndex THEN 1 ELSE 0
            /\ paymentIndex[c] # NoIndex
            /\ pIncs[c] = 1
            /\ payment_counter[merchantId[c]] > paymentIndex[c]
            /\ \A d \in Calls \ {c} :
                 (merchantId[d] = merchantId[c] /\ paymentIndex[d] # NoIndex)
                   => paymentIndex[d] # paymentIndex[c])
  /\ [][/\ \A c \in Calls :
             (err'[c] = "seed" /\ err[c] # "seed")
               => pc[c] = "derive" /\ store' = store
        /\ masterSeed' # masterSeed
             => \E c \in Calls : pc[c] = "derive" /\ pc'[c] = "done"]_vars

\* a call that created its merchant's mapping failed on the seed, and a
\* later call for the merchant was given the next payment index
C32_Witness ==
  \E c, d \in Calls :
    /\ Abandoned(c) /\ gIncs[c] = 1
    /\ pc[d] = "done"
    /\ merchantId[d] = merchantId[c]
    /\ seenMax[d] = paymentIndex[c]
    /\ result[d].paymentIndex = paymentIndex[c] + 1

\* a read-side operation completes in this step
ReadSide == Len(klog') = Len(klog) + 1

\* C33: regenerateKeypair in both forms, regenerateKeypairFromPath,
\* verifyAddress, encryptKeyData and decryptKeyData leave the global counter,
\* the mappings, the payment counters and the Payment rows as they were,
\* whether they return or fail; the numeric form of regenerateKeypair never
\* fails on a lookup.
C33_ReadSideFrame ==
  /\ [][ReadSide => /\ store' = store
                    /\ txs' = txs
                    /\ payment_index' = payment_index]_vars
  /\ [](\A i \in 1..Len(klog) :
          klog[i].op = "regenerateKeypair"
            => klog[i].out.error \notin {NoIndexError, NoPaymentIndexError})

\* the identifier form derived for the mapped merchant or was rejected for
\* the other one, and the numeric form derived or a blob was decrypted
C33_Witness ==
  /\ Len(klog) = MaxKeyOps
  /\ \E i \in 1..Len(klog) :
       /\ klog[i].op = "regenerateKeypairById"
       /\ klog[i].out.error \in {"none", NoIndexError}
  /\ \E i \in 1..Len(klog) :
       /\ klog[i].op \in {"regenerateKeypair", "decryptKeyData"}
       /\ klog[i].out.error = "none"
  /\ payment_counter[1] = 2

\* C34: a getMasterSeed call made after a storeMasterSeed(s) completed, and
\* that returns, returns s.
C34_StoreGetRoundTrip ==
  \A c \in Calls :
    (/\ kcall[c].op = "getMasterSeed"
     /\ kcall[c].pc = "done"
     /\ kcall[c].want # NoSeed)
      => kcall[c].ret = kcall[c].want

\* an interval set in this step is set with no EventSource left open, and
\* because window has no EventSource, because the constructor threw, or in
\* the error handler of a connection the step closed
C35_Step ==
  \A iv \in intervals' \ intervals :
    /\ sources' = {}
    /\ iv.why \in {"unavailable", "throws", "error"}
    /\ iv.why = "unavailable" <=> ~hasEventSource
    /\ iv.why = "error" => \E es \in sources \ sources' : es.id = iv.id

\* C35: at most one transport is live at any time, an open EventSource or one
\* polling interval; polling starts only when EventSource is unavailable, its
\* construction throws, or an SSE connection reported an error and was closed.
C35_OneTransport ==
  /\ [](Cardinality(sources) + Cardinality(intervals) <= 1)
  /\ [][C35_Step]_vars

\* polling runs after an SSE connection for the current payment failed
C35_Witness ==
  /\ mounted
  /\ hasEventSource
  /\ sources = {}
  /\ payment.id = paymentId
  /\ \E iv \in intervals : iv.why = "error" /\ iv.id = paymentId

\* the hook holds a terminal status of the payment of its paymentId
TerminalKnown ==
  /\ mounted
  /\ payment.id = paymentId
  /\ payment.statusOf = paymentId
  /\ payment.status \in Terminal

\* C36: once the status of the payment is terminal, and once the component
\* is unmounted, no EventSource is open and no interval runs, and none is
\* opened while paymentId stays the same.
C36_TerminalStaysClosed ==
  /\ []((TerminalKnown \/ ~mounted) => (sources = {} /\ intervals = {}))
  /\ [][((TerminalKnown \/ ~mounted) /\ paymentId' = paymentId)
          => (sources' \subseteq sources /\ intervals' \subseteq intervals)]_vars

\* C37: the payment the hook returns was fetched for the current paymentId,
\* and its status is a status of that payment.
C37_PaymentBelongs ==
  (mounted /\ payment # NoPayment)
    => (payment.id = paymentId /\ payment.statusOf = payment.id)

====
